---- MODULE Spec2Model ----
(***************************************************************************)
(* A model of ioredis-cache (src/src/Cache.ts, class Cache): the           *)
(* cache-aside operations over a redis store, and the compensating         *)
(* counter reservation (acquire).                                          *)
(*                                                                         *)
(* Texts (redis keys, redis strings) are sequences of one-character        *)
(* strings.  JavaScript values are records with one field naming their     *)
(* type, so that values of different types can be compared.                *)
(***************************************************************************)
EXTENDS Integers, Sequences, FiniteSets, TLC

VARIABLES
    store,   \* the redis keyspace: physical key -> entry (absent keys are not in the domain)
    calls,   \* the calls of Cache methods in flight: call id -> activation record
    history, \* the commands the store has applied for the calls in flight, in order
    scene    \* how the callers of this run address the cache, and the commands
             \* the store refuses at present

vars == <<store, calls, history, scene>>

-----------------------------------------------------------------------------
(* Bounds of the model.                                                    *)

\* longest key list handed to manyCache / hashManyCache
MaxKeys == 2
\* largest ttl (seconds) a caller passes
MaxTtl == 1
\* largest amount a caller reserves with acquire
MaxAmount == 2
\* acquire is not started when the counter could pass this value
MaxCounter == 3
\* number of calls that may be in flight at once in the concurrent runs
NCalls == 2
\* largest batch a caller passes to deletePattern
MaxBatch == 2

-----------------------------------------------------------------------------
(* JavaScript values.                                                      *)

Undefined == [undef |-> TRUE]
Null == [null |-> TRUE]
Num(n) == [num |-> n]
Str(t) == [str |-> t]
Bool(b) == [bool |-> b]

IsStr(v) == DOMAIN v = {"str"}
IsNum(v) == DOMAIN v = {"num"}

\* const NOT_FOUND_VALUE = undefined
NOT_FOUND_VALUE == Undefined

\* JavaScript truthiness, as used by `data ? ... : ...` and `!e`
Truthy(v) ==
    CASE v = Undefined -> FALSE
      [] v = Null -> FALSE
      [] IsStr(v) -> v.str # <<>>
      [] IsNum(v) -> v.num # 0
      [] OTHER -> v.bool

-----------------------------------------------------------------------------
(* Decimal texts.                                                          *)

Digits == <<"0", "1", "2", "3", "4", "5", "6", "7", "8", "9">>

IsDigit(ch) == \E d \in 1..10 : Digits[d] = ch
DigitVal(ch) == (CHOOSE d \in 1..10 : Digits[d] = ch) - 1

RECURSIVE NatText(_)
NatText(n) ==
    IF n < 10 THEN <<Digits[n + 1]>>
    ELSE NatText(n \div 10) \o <<Digits[(n % 10) + 1]>>

\* the decimal text of an integer (Number.prototype.toString, redis ll2string)
IntText(n) == IF n < 0 THEN <<"-">> \o NatText(-n) ELSE NatText(n)

RECURSIVE NatVal(_)
NatVal(t) ==
    IF t = <<>> THEN 0
    ELSE NatVal(SubSeq(t, 1, Len(t) - 1)) * 10 + DigitVal(t[Len(t)])

\* -?(0|[1-9][0-9]*), the integers both JSON and redis accept
IsIntText(t) ==
    LET body == IF t # <<>> /\ t[1] = "-" THEN Tail(t) ELSE t
    IN  /\ body # <<>>
        /\ \A i \in 1..Len(body) : IsDigit(body[i])
        /\ (Len(body) > 1 => body[1] # "0")
        /\ ~(t[1] = "-" /\ body = <<"0">>)

IntVal(t) == IF t[1] = "-" THEN 0 - NatVal(Tail(t)) ELSE NatVal(t)

-----------------------------------------------------------------------------
(* The default parser, JSON (protected parser: Parser = JSON).             *)

Quote == "\""
SyntaxError == [syntaxError |-> TRUE]

\* JSON.stringify: a JavaScript string, or undefined for undefined
JSONstringify(v) ==
    CASE v = Undefined -> Undefined
      [] v = Null -> Str(<<"n", "u", "l", "l">>)
      [] IsNum(v) -> Str(IntText(v.num))
      [] IsStr(v) -> Str(<<Quote>> \o v.str \o <<Quote>>)
      [] OTHER -> IF v.bool THEN Str(<<"t", "r", "u", "e">>)
                  ELSE Str(<<"f", "a", "l", "s", "e">>)

\* JSON.parse of a text: the value, or SyntaxError when it throws
JSONparse(t) ==
    CASE t = <<"n", "u", "l", "l">> -> Null
      [] t = <<"t", "r", "u", "e">> -> Bool(TRUE)
      [] t = <<"f", "a", "l", "s", "e">> -> Bool(FALSE)
      [] IsIntText(t) -> Num(IntVal(t))
      [] /\ Len(t) >= 2
         /\ t[1] = Quote
         /\ t[Len(t)] = Quote
         /\ \A i \in 2..(Len(t) - 1) : t[i] # Quote -> Str(SubSeq(t, 2, Len(t) - 1))
      [] OTHER -> SyntaxError

\* parseInt / parseFloat of what an increment replied (a number or a decimal text)
parser(v) ==
    LET t == IF IsNum(v) THEN IntText(v.num) ELSE v.str
    IN  IF IsIntText(t) THEN Num(IntVal(t)) ELSE [nan |-> TRUE]

-----------------------------------------------------------------------------
(* The redis client (ioredis) and the store behind it.                     *)

\* redis.options.keyPrefix, which the client puts in front of every key it sends
keyPrefix == <<"z">>
Phys(k) == keyPrefix \o k

\* how the client writes a command argument: null and undefined as the empty
\* text, a number as its decimal text, a string as it is
toArg(v) ==
    CASE v = Undefined -> <<>>
      [] v = Null -> <<>>
      [] IsNum(v) -> IntText(v.num)
      [] OTHER -> v.str

NoFields == [f \in {} |-> <<>>]
StringEntry(t, e) == [kind |-> "string", text |-> t, fields |-> NoFields, exp |-> e]
HashEntry(fs, e) == [kind |-> "hash", text |-> <<>>, fields |-> fs, exp |-> e]

Has(st, k) == Phys(k) \in DOMAIN st
Put(st, k, entry) ==
    [x \in DOMAIN st \cup {Phys(k)} |-> IF x = Phys(k) THEN entry ELSE st[x]]
Drop(st, ks) == [x \in DOMAIN st \ {Phys(k) : k \in ks} |-> st[x]]

\* what a command did: the store after it, its reply or its error, and the
\* command sent, which keeps the error it met ("" when it was applied)

Cmd(name, args) == [name |-> name, args |-> args, err |-> ""]
Done(st, v, c) == [st |-> st, reply |-> v, err |-> "", cmd |-> c]
Refused(st, e, c) ==
    [st |-> st, reply |-> Undefined, err |-> e, cmd |-> [c EXCEPT !.err = e]]

Arr(s) == [arr |-> s]
Obj(m) == [obj |-> m]
IsArray(v) == DOMAIN v = {"arr"}
Range(s) == {s[i] : i \in 1..Len(s)}

\* The store may refuse commands by name (an ACL rule, a replica that is
\* read-only, a server out of memory): scene.denied is the set of command
\* names it refuses at present, and a refused command changes nothing.
NOPERM == "NOPERM"
Denied(name) == name \in scene.denied

\* GET key
RedisGet(st, k) ==
    LET c == Cmd("get", <<Str(k)>>)
    IN  IF Denied(c.name) THEN Refused(st, NOPERM, c)
        ELSE IF ~Has(st, k) THEN Done(st, Null, c)
        ELSE IF st[Phys(k)].kind = "string" THEN Done(st, Str(st[Phys(k)].text), c)
        ELSE Refused(st, "WRONGTYPE", c)

\* SET key value: the key becomes a string without expiry
RedisSet(st, k, data) ==
    LET c == Cmd("set", <<Str(k), data>>)
    IN  IF Denied(c.name) THEN Refused(st, NOPERM, c)
        ELSE Done(Put(st, k, StringEntry(toArg(data), 0)), Str(<<"O", "K">>), c)

\* SETEX key seconds value
RedisSetex(st, k, ttl, data) ==
    LET c == Cmd("setex", <<Str(k), ttl, data>>)
    IN  IF Denied(c.name) THEN Refused(st, NOPERM, c)
        ELSE IF IsNum(ttl) /\ ttl.num >= 1
        THEN Done(Put(st, k, StringEntry(toArg(data), ttl.num)), Str(<<"O", "K">>), c)
        ELSE Refused(st, "ERR invalid expire time", c)

\* MGET key [key ...]: nil for a key that is absent or holds no string
RedisMget(st, ks) ==
    LET c == Cmd("mget", [i \in 1..Len(ks) |-> Str(ks[i])])
    IN  IF Denied(c.name) THEN Refused(st, NOPERM, c)
        ELSE Done(st,
                  Arr([i \in 1..Len(ks) |->
                         IF Has(st, ks[i]) /\ st[Phys(ks[i])].kind = "string"
                         THEN Str(st[Phys(ks[i])].text) ELSE Null]), c)

RECURSIVE MsetApply(_, _)
MsetApply(st, params) ==
    IF Len(params) < 2 THEN st
    ELSE MsetApply(Put(st, params[1].str, StringEntry(toArg(params[2]), 0)),
                   SubSeq(params, 3, Len(params)))

\* MSET key value [key value ...]
RedisMset(st, params) ==
    LET c == Cmd("mset", params)
    IN  IF Denied(c.name) THEN Refused(st, NOPERM, c)
        ELSE Done(MsetApply(st, params), Str(<<"O", "K">>), c)

\* EXPIRE key seconds
RedisExpire(st, k, ttl) ==
    LET c == Cmd("expire", <<Str(k), ttl>>)
    IN  IF Denied(c.name) THEN Refused(st, NOPERM, c)
        ELSE IF Has(st, k)
        THEN Done(Put(st, k, [st[Phys(k)] EXCEPT !.exp = ttl.num]), Num(1), c)
        ELSE Done(st, Num(0), c)

\* mutant of RedisDel: the reply is the number of keys named in the command
RedisDelCountsArgs(st, ks) ==
    LET c == Cmd("del", [i \in 1..Len(ks) |-> Str(ks[i])])
    IN  IF Denied(c.name) THEN Refused(st, NOPERM, c)
        ELSE IF ks = <<>> THEN Refused(st, "ERR wrong number of arguments", c)
        ELSE Done(Drop(st, Range(ks)), Num(Len(ks)), c)

\* mutant of RedisDel: only strings are removed and counted, a hash stays
RedisDelStrings(st, ks) ==
    LET c == Cmd("del", [i \in 1..Len(ks) |-> Str(ks[i])])
        strings == {k \in Range(ks) : Has(st, k) /\ st[Phys(k)].kind = "string"}
    IN  IF Denied(c.name) THEN Refused(st, NOPERM, c)
        ELSE IF ks = <<>> THEN Refused(st, "ERR wrong number of arguments", c)
        ELSE Done(Drop(st, strings), Num(Cardinality(strings)), c)

\* DEL key [key ...]: the number of keys that were removed
RedisDel(st, ks) ==
    LET c == Cmd("del", [i \in 1..Len(ks) |-> Str(ks[i])])
    IN  IF Denied(c.name) THEN Refused(st, NOPERM, c)
        ELSE IF ks = <<>> THEN Refused(st, "ERR wrong number of arguments", c)
        ELSE Done(Drop(st, Range(ks)), Num(Cardinality({k \in Range(ks) : Has(st, k)})), c)

\* INCRBY key n (float = FALSE, replies a number) and INCRBYFLOAT key n
\* (float = TRUE, replies the text) on integral amounts
RedisIncr(st, k, n, float) ==
    LET c == Cmd(IF float THEN "incrbyfloat" ELSE "incrby", <<Str(k), Num(n)>>)
        old == IF Has(st, k) THEN st[Phys(k)] ELSE StringEntry(<<"0">>, 0)
    IN  IF Denied(c.name) THEN Refused(st, NOPERM, c)
        ELSE IF old.kind # "string" THEN Refused(st, "WRONGTYPE", c)
        ELSE IF ~IsIntText(old.text) THEN Refused(st, "ERR value is not a number", c)
        ELSE LET new == IntVal(old.text) + n
             IN  Done(Put(st, k, StringEntry(IntText(new), old.exp)),
                      IF float THEN Str(IntText(new)) ELSE Num(new), c)

FieldsOf(st, k) == IF Has(st, k) THEN st[Phys(k)].fields ELSE NoFields
IsHashOrAbsent(st, k) == ~Has(st, k) \/ st[Phys(k)].kind = "hash"
WithField(fs, f, t) == [x \in DOMAIN fs \cup {f} |-> IF x = f THEN t ELSE fs[x]]

\* HGET key field
RedisHget(st, k, f) ==
    LET c == Cmd("hget", <<Str(k), Str(f)>>)
    IN  IF Denied(c.name) THEN Refused(st, NOPERM, c)
        ELSE IF ~IsHashOrAbsent(st, k) THEN Refused(st, "WRONGTYPE", c)
        ELSE IF f \in DOMAIN FieldsOf(st, k) THEN Done(st, Str(FieldsOf(st, k)[f]), c)
        ELSE Done(st, Null, c)

\* HSET key field value: the number of fields that were added
RedisHset(st, k, f, data) ==
    LET c == Cmd("hset", <<Str(k), Str(f), data>>)
        e == IF Has(st, k) THEN st[Phys(k)].exp ELSE 0
    IN  IF Denied(c.name) THEN Refused(st, NOPERM, c)
        ELSE IF ~IsHashOrAbsent(st, k) THEN Refused(st, "WRONGTYPE", c)
        ELSE Done(Put(st, k, HashEntry(WithField(FieldsOf(st, k), f, toArg(data)), e)),
                  Num(IF f \in DOMAIN FieldsOf(st, k) THEN 0 ELSE 1), c)

\* HMGET key field [field ...]
RedisHmget(st, k, fs) ==
    LET c == Cmd("hmget", <<Str(k)>> \o [i \in 1..Len(fs) |-> Str(fs[i])])
    IN  IF Denied(c.name) THEN Refused(st, NOPERM, c)
        ELSE IF ~IsHashOrAbsent(st, k) THEN Refused(st, "WRONGTYPE", c)
        ELSE Done(st,
                  Arr([i \in 1..Len(fs) |->
                         IF fs[i] \in DOMAIN FieldsOf(st, k)
                         THEN Str(FieldsOf(st, k)[fs[i]]) ELSE Null]), c)

RECURSIVE HmsetApply(_, _)
HmsetApply(fs, params) ==
    IF Len(params) < 2 THEN fs
    ELSE HmsetApply(WithField(fs, params[1].str, toArg(params[2])),
                    SubSeq(params, 3, Len(params)))

\* HMSET key field value [field value ...]
RedisHmset(st, k, params) ==
    LET c == Cmd("hmset", <<Str(k)>> \o params)
        e == IF Has(st, k) THEN st[Phys(k)].exp ELSE 0
    IN  IF Denied(c.name) THEN Refused(st, NOPERM, c)
        ELSE IF ~IsHashOrAbsent(st, k) THEN Refused(st, "WRONGTYPE", c)
        ELSE Done(Put(st, k, HashEntry(HmsetApply(FieldsOf(st, k), params), e)),
                  Str(<<"O", "K">>), c)

\* mutant of RedisHdel: the fields are counted, and the whole hash is removed
RedisHdelDropsHash(st, k, fs) ==
    LET c == Cmd("hdel", <<Str(k)>> \o [i \in 1..Len(fs) |-> Str(fs[i])])
        old == FieldsOf(st, k)
    IN  IF Denied(c.name) THEN Refused(st, NOPERM, c)
        ELSE IF fs = <<>> THEN Refused(st, "ERR wrong number of arguments", c)
        ELSE IF ~IsHashOrAbsent(st, k) THEN Refused(st, "WRONGTYPE", c)
        ELSE IF ~Has(st, k) THEN Done(st, Num(0), c)
        ELSE Done(IF DOMAIN old \cap Range(fs) = {} THEN st ELSE Drop(st, {k}),
                  Num(Cardinality(DOMAIN old \cap Range(fs))), c)

\* HDEL key field [field ...]: the number of fields removed; a hash left
\* without fields is removed
RedisHdel(st, k, fs) ==
    LET c == Cmd("hdel", <<Str(k)>> \o [i \in 1..Len(fs) |-> Str(fs[i])])
        old == FieldsOf(st, k)
        left == [x \in DOMAIN old \ Range(fs) |-> old[x]]
    IN  IF Denied(c.name) THEN Refused(st, NOPERM, c)
        ELSE IF fs = <<>> THEN Refused(st, "ERR wrong number of arguments", c)
        ELSE IF ~IsHashOrAbsent(st, k) THEN Refused(st, "WRONGTYPE", c)
        ELSE IF ~Has(st, k) THEN Done(st, Num(0), c)
        ELSE Done(IF DOMAIN left = {} THEN Drop(st, {k})
                  ELSE Put(st, k, HashEntry(left, st[Phys(k)].exp)),
                  Num(Cardinality(DOMAIN old \cap Range(fs))), c)

\* HINCRBY key field n (float = FALSE, replies a number) and HINCRBYFLOAT key
\* field n (float = TRUE, replies the text) on integral amounts
RedisHincr(st, k, f, n, float) ==
    LET c == Cmd(IF float THEN "hincrbyfloat" ELSE "hincrby", <<Str(k), Str(f), Num(n)>>)
        old == IF f \in DOMAIN FieldsOf(st, k) THEN FieldsOf(st, k)[f] ELSE <<"0">>
        e == IF Has(st, k) THEN st[Phys(k)].exp ELSE 0
    IN  IF Denied(c.name) THEN Refused(st, NOPERM, c)
        ELSE IF ~IsHashOrAbsent(st, k) THEN Refused(st, "WRONGTYPE", c)
        ELSE IF ~IsIntText(old) THEN Refused(st, "ERR hash value is not a number", c)
        ELSE LET new == IntVal(old) + n
             IN  Done(Put(st, k, HashEntry(WithField(FieldsOf(st, k), f, IntText(new)), e)),
                      IF float THEN Str(IntText(new)) ELSE Num(new), c)

\* the glob match of SCAN ... MATCH (stringmatchlen): `*` stands for any run
\* of characters, `?` for any one character, any other character for itself
RECURSIVE GlobMatch(_, _)
GlobMatch(p, t) ==
    IF p = <<>> THEN t = <<>>
    ELSE IF Head(p) = "*"
    THEN GlobMatch(Tail(p), t) \/ (t # <<>> /\ GlobMatch(p, Tail(t)))
    ELSE /\ t # <<>>
         /\ Head(p) \in {"?", Head(t)}
         /\ GlobMatch(Tail(p), Tail(t))

\* the elements of a set of texts as a list, in one order
RECURSIVE SetToSeq(_)
SetToSeq(S) ==
    IF S = {} THEN <<>>
    ELSE LET x == CHOOSE y \in S : TRUE IN <<x>> \o SetToSeq(S \ {x})

\* one page of SCAN cursor MATCH glob COUNT count.  The cursor passes over the
\* physical keys `visited`; the page holds those of them that match, and may
\* repeat keys `again` of earlier pages that are still in the store.  The
\* client does not prefix the glob and does not strip the keys of the reply.
RedisScan(st, glob, count, visited, again) ==
    LET c == Cmd("scan", <<Str(glob), Num(count)>>)
    IN  IF Denied(c.name) THEN Refused(st, NOPERM, c)
        ELSE IF count < 1 THEN Refused(st, "ERR syntax error", c)
        ELSE Done(st, Arr(SetToSeq({x \in visited \cup again : GlobMatch(glob, x)})), c)

\* pipeline.exec(): the queued commands are applied one after the other; a
\* refused command leaves its error in its place of the reply and the others
\* are applied all the same
RECURSIVE PipelineDel(_, _)
PipelineDel(r, ks) ==
    IF ks = <<>> THEN r
    ELSE LET d == RedisDel(r.st, <<Head(ks)>>)
         IN  PipelineDel([st |-> d.st, cmds |-> Append(r.cmds, d.cmd),
                          replies |-> Append(r.replies, [err |-> d.err, reply |-> d.reply])],
                         Tail(ks))

\* one second passes: an entry in its last second expires
Elapse(st) ==
    [x \in {y \in DOMAIN st : st[y].exp # 1} |->
        IF st[x].exp = 0 THEN st[x] ELSE [st[x] EXCEPT !.exp = @ - 1]]
-----------------------------------------------------------------------------
(* The methods of class Cache, as functions of the store they act on.      *)
(* Each yields the store afterwards, the value it resolves with or the     *)
(* error it rejects with, and the commands it sent.                        *)

Ret(st, v, cs) == [st |-> st, value |-> v, err |-> "", cmds |-> cs]
Thrown(st, e, cs) == [st |-> st, value |-> Undefined, err |-> e, cmds |-> cs]

\* mutant of Decode: `parse(data) ?? NOT_FOUND_VALUE`, which turns a parsed
\* null into the sentinel
DecodeNullish(data) ==
    IF Truthy(data) /\ JSONparse(data.str) # Null THEN JSONparse(data.str)
    ELSE NOT_FOUND_VALUE

\* mutant of Decode: `parse(data) || NOT_FOUND_VALUE`, the truth test made on
\* the parsed value
DecodeFalsy(data) ==
    IF Truthy(data) /\ JSONparse(data.str) # SyntaxError /\ ~Truthy(JSONparse(data.str))
    THEN NOT_FOUND_VALUE
    ELSE IF Truthy(data) THEN JSONparse(data.str) ELSE NOT_FOUND_VALUE

\* mutant of Decode: `data !== null ? parse(data) : NOT_FOUND_VALUE`, which
\* hands the empty text to the parser
DecodeNonNull(data) == IF data # Null THEN JSONparse(data.str) ELSE NOT_FOUND_VALUE

\* mutant of Decode: a text that the parser rejects counts as a miss
DecodeOrAbsent(data) ==
    IF Truthy(data) /\ JSONparse(data.str) # SyntaxError THEN JSONparse(data.str)
    ELSE NOT_FOUND_VALUE

\* the value a reply decodes to: `data ? this.parser.parse(data) : NOT_FOUND_VALUE`
Decode(data) == IF Truthy(data) THEN JSONparse(data.str) ELSE NOT_FOUND_VALUE

\* mutant of setCache: the write is SET ... NX, which keeps an entry that is
\* already there
setCacheNX(st, key, value, ttl) ==
    LET data == JSONstringify(value)
        r == IF ttl # Undefined THEN RedisSetex(st, key, ttl, data)
             ELSE RedisSet(st, key, data)
    IN  IF r.err # "" THEN Thrown(r.st, r.err, <<r.cmd>>)
        ELSE Ret(IF Has(st, key) THEN st ELSE r.st, r.reply, <<r.cmd>>)

getCache(st, key) ==
    LET r == RedisGet(st, key)
    IN  IF r.err # "" THEN Thrown(r.st, r.err, <<r.cmd>>)
        ELSE IF Decode(r.reply) = SyntaxError THEN Thrown(r.st, "SyntaxError", <<r.cmd>>)
        ELSE Ret(r.st, Decode(r.reply), <<r.cmd>>)

\* mutant of setCache: without ttl the write is SET ... KEEPTTL, which leaves
\* the expiry the key had
setCacheKeepTtl(st, key, value, ttl) ==
    LET data == JSONstringify(value)
        r == IF ttl # Undefined THEN RedisSetex(st, key, ttl, data)
             ELSE RedisSet(st, key, data)
        kept == IF ttl = Undefined /\ Has(st, key)
                THEN Put(r.st, key, [r.st[Phys(key)] EXCEPT !.exp = st[Phys(key)].exp])
                ELSE r.st
    IN  IF r.err # "" THEN Thrown(r.st, r.err, <<r.cmd>>)
        ELSE Ret(kept, r.reply, <<r.cmd>>)

setCache(st, key, value, ttl) ==
    LET data == JSONstringify(value)
        r == IF ttl # Undefined THEN RedisSetex(st, key, ttl, data)
             ELSE RedisSet(st, key, data)
    IN  IF r.err # "" THEN Thrown(r.st, r.err, <<r.cmd>>)
        ELSE Ret(r.st, r.reply, <<r.cmd>>)

\* mutant of getManyCache: the early return for an empty list is missing, so
\* MGET goes out without a key and the store refuses it
getManyCacheNoGuard(st, keys) ==
    LET r == RedisMget(st, keys)
        data == [i \in 1..Len(keys) |-> Decode(r.reply.arr[i])]
    IN  IF Len(keys) <= 0
        THEN Thrown(st, "ERR wrong number of arguments", <<r.cmd>>)
        ELSE IF r.err # "" THEN Thrown(r.st, r.err, <<r.cmd>>)
        ELSE IF \E i \in 1..Len(keys) : data[i] = SyntaxError
        THEN Thrown(r.st, "SyntaxError", <<r.cmd>>)
        ELSE Ret(r.st, Arr(data), <<r.cmd>>)

getManyCache(st, keys) ==
    IF Len(keys) <= 0 THEN Ret(st, Arr(<<>>), <<>>)
    ELSE LET r == RedisMget(st, keys)
             data == [i \in 1..Len(keys) |-> Decode(r.reply.arr[i])]
         IN  IF r.err # "" THEN Thrown(r.st, r.err, <<r.cmd>>)
             ELSE IF \E i \in 1..Len(keys) : data[i] = SyntaxError
             THEN Thrown(r.st, "SyntaxError", <<r.cmd>>)
             ELSE Ret(r.st, Arr(data), <<r.cmd>>)

\* the own property names of an object (Object.keys, Object.entries), in one order
RECURSIVE ObjectKeys(_)
ObjectKeys(m) ==
    IF DOMAIN m = {} THEN <<>>
    ELSE LET k == CHOOSE x \in DOMAIN m : TRUE
         IN  <<k>> \o ObjectKeys([x \in DOMAIN m \ {k} |-> m[x]])

\* Object.assign(c, { [key]: value })
Assign(c, key, value) == [x \in DOMAIN c \cup {key} |-> IF x = key THEN value ELSE c[x]]

\* obj[key]: undefined when the object has no such property
Prop(m, key) == IF key \in DOMAIN m THEN m[key] ELSE Undefined

RECURSIVE BuildParams(_, _)
BuildParams(m, ks) ==
    IF ks = <<>> THEN <<>>
    ELSE <<Str(Head(ks)), JSONstringify(m[Head(ks)])>> \o BuildParams(m, Tail(ks))

_buildSetParams(valueMap) == BuildParams(valueMap, ObjectKeys(valueMap))

RECURSIVE ExpireAll(_, _, _)
ExpireAll(r, ks, ttl) ==
    IF ks = <<>> THEN r
    ELSE LET e == RedisExpire(r.st, Head(ks), ttl)
         IN  ExpireAll([st |-> e.st, cmds |-> Append(r.cmds, e.cmd)], Tail(ks), ttl)

\* mutant of setManyCache: the loop over the keys is missing, only the first
\* key gets the expiry
setManyCacheExpiresFirst(st, valueMap, ttl) ==
    LET keys == ObjectKeys(valueMap)
        params == _buildSetParams(valueMap)
        m == RedisMset(st, params)
    IN  IF Len(keys) <= 0 THEN Ret(st, Arr(<<>>), <<>>)
        ELSE IF ttl = Undefined
        THEN IF m.err # "" THEN Thrown(m.st, m.err, <<m.cmd>>)
             ELSE Ret(m.st, m.reply, <<m.cmd>>)
        ELSE LET p == ExpireAll([st |-> m.st, cmds |-> <<m.cmd>>], <<Head(keys)>>, ttl)
             IN  Ret(p.st, Arr(<<>>), p.cmds)

\* Without ttl the promise of redis.mset is returned, which rejects when the
\* store refuses the command.  With ttl the commands go through a pipeline:
\* pipeline.exec() resolves with one [error, reply] pair per command, so a
\* refused command does not reject it.
setManyCache(st, valueMap, ttl) ==
    LET keys == ObjectKeys(valueMap)
        params == _buildSetParams(valueMap)
        m == RedisMset(st, params)
    IN  IF Len(keys) <= 0 THEN Ret(st, Arr(<<>>), <<>>)
        ELSE IF ttl = Undefined
        THEN IF m.err # "" THEN Thrown(m.st, m.err, <<m.cmd>>)
             ELSE Ret(m.st, m.reply, <<m.cmd>>)
        ELSE LET p == ExpireAll([st |-> m.st, cmds |-> <<m.cmd>>], keys, ttl)
             IN  Ret(p.st, Arr(<<>>), p.cmds)

getHashCache(st, key, id) ==
    LET r == RedisHget(st, key, id)
    IN  IF r.err # "" THEN Thrown(r.st, r.err, <<r.cmd>>)
        ELSE IF Decode(r.reply) = SyntaxError THEN Thrown(r.st, "SyntaxError", <<r.cmd>>)
        ELSE Ret(r.st, Decode(r.reply), <<r.cmd>>)

setHashCache(st, key, id, value) ==
    LET r == RedisHset(st, key, id, JSONstringify(value))
    IN  IF r.err # "" THEN Thrown(r.st, r.err, <<r.cmd>>)
        ELSE Ret(r.st, r.reply, <<r.cmd>>)

getHashManyCache(st, key, ids) ==
    IF Len(ids) <= 0 THEN Ret(st, Arr(<<>>), <<>>)
    ELSE LET r == RedisHmget(st, key, ids)
             data == [i \in 1..Len(ids) |-> Decode(r.reply.arr[i])]
         IN  IF r.err # "" THEN Thrown(r.st, r.err, <<r.cmd>>)
             ELSE IF \E i \in 1..Len(ids) : data[i] = SyntaxError
             THEN Thrown(r.st, "SyntaxError", <<r.cmd>>)
             ELSE Ret(r.st, Arr(data), <<r.cmd>>)

\* mutant of setHashManyCache: the entries whose value is undefined are left
\* out of the write
setHashManyCacheDefined(st, key, valueMap) ==
    LET defined == [k \in {x \in DOMAIN valueMap : valueMap[x] # Undefined} |-> valueMap[k]]
        r == RedisHmset(st, key, _buildSetParams(defined))
    IN  IF Len(ObjectKeys(defined)) <= 0 THEN Ret(st, Arr(<<>>), <<>>)
        ELSE IF r.err # "" THEN Thrown(r.st, r.err, <<r.cmd>>)
        ELSE Ret(r.st, r.reply, <<r.cmd>>)

setHashManyCache(st, key, valueMap) ==
    LET r == RedisHmset(st, key, _buildSetParams(valueMap))
    IN  IF Len(ObjectKeys(valueMap)) <= 0 THEN Ret(st, Arr(<<>>), <<>>)
        ELSE IF r.err # "" THEN Thrown(r.st, r.err, <<r.cmd>>)
        ELSE Ret(r.st, r.reply, <<r.cmd>>)

deleteCache(st, keys) ==
    LET r == RedisDel(st, keys)
    IN  IF r.err # "" THEN Thrown(r.st, r.err, <<r.cmd>>)
        ELSE Ret(r.st, r.reply, <<r.cmd>>)

deleteHashCache(st, key, ids) ==
    LET r == RedisHdel(st, key, ids)
    IN  IF r.err # "" THEN Thrown(r.st, r.err, <<r.cmd>>)
        ELSE Ret(r.st, r.reply, <<r.cmd>>)

\* mutant of Uncached: the keys are collected with unshift instead of push
RECURSIVE UncachedUnshift(_, _, _)
UncachedUnshift(keys, cachedValues, i) ==
    IF i > Len(cachedValues) THEN <<>>
    ELSE UncachedUnshift(keys, cachedValues, i + 1)
         \o (IF cachedValues[i] = NOT_FOUND_VALUE THEN <<keys[i]>> ELSE <<>>)

\* mutant of Uncached: the test is `== null`, which a cached null passes too
RECURSIVE UncachedNullish(_, _, _)
UncachedNullish(keys, cachedValues, i) ==
    IF i > Len(cachedValues) THEN <<>>
    ELSE (IF cachedValues[i] \in {NOT_FOUND_VALUE, Null} THEN <<keys[i]>> ELSE <<>>)
         \o UncachedNullish(keys, cachedValues, i + 1)

\* the loop that collects the keys whose cached value is NOT_FOUND_VALUE
RECURSIVE Uncached(_, _, _)
Uncached(keys, cachedValues, i) ==
    IF i > Len(cachedValues) THEN <<>>
    ELSE (IF cachedValues[i] = NOT_FOUND_VALUE THEN <<keys[i]>> ELSE <<>>)
         \o Uncached(keys, cachedValues, i + 1)

\* uncachedKeys.reduce((c, key, idx) => Object.assign(c, {[key]: uncachedValues[idx]}), {})
RECURSIVE ReduceArray(_, _, _, _)
ReduceArray(c, uncachedKeys, arr, idx) ==
    IF idx > Len(uncachedKeys) THEN c
    ELSE ReduceArray(Assign(c, uncachedKeys[idx],
                            IF idx <= Len(arr) THEN arr[idx] ELSE Undefined),
                     uncachedKeys, arr, idx + 1)

\* the id -> value map of what the resolver returned (an array or a map)
uncachedValueMap(uncachedKeys, uncachedValues) ==
    IF IsArray(uncachedValues)
    THEN ReduceArray(NoFields, uncachedKeys, uncachedValues.arr, 1)
    ELSE uncachedValues.obj

\* Object.entries(map).reduce((c, [key, value]) => Object.assign(c, {[prefix+key]: value}), {})
RECURSIVE ReducePrefix(_, _, _, _)
ReducePrefix(c, m, ks, prefix) ==
    IF ks = <<>> THEN c
    ELSE ReducePrefix(Assign(c, prefix \o Head(ks), m[Head(ks)]), m, Tail(ks), prefix)

fullKeyUncachedValueMap(m, prefix) == ReducePrefix(NoFields, m, ObjectKeys(m), prefix)

\* mutant of Merged: a resolved value replaces the cached one wherever the
\* resolver's map has the key
MergedPreferResolved(keys, cachedValues, m) ==
    [i \in 1..Len(cachedValues) |->
        IF keys[i] \in DOMAIN m THEN m[keys[i]] ELSE cachedValues[i]]

\* the loop that puts the resolved values in the places of the misses
Merged(keys, cachedValues, m) ==
    [i \in 1..Len(cachedValues) |->
        IF cachedValues[i] = NOT_FOUND_VALUE THEN Prop(m, keys[i]) ELSE cachedValues[i]]

fullKeys(keys, prefix) == [i \in 1..Len(keys) |-> prefix \o keys[i]]
-----------------------------------------------------------------------------
(* Calls.  A call is suspended at each `await`; an action is the code run  *)
(* from one suspension to the next, the store command it awaits included.  *)
(*   pc = "fn"       the caller's function (resolver, body) is running     *)
(*   pc = "catch"    acquire caught an error and is about to release       *)
(*   pc = "scan"     deletePattern awaits the next page of the scan        *)
(*   pc = "jobs"     deletePattern awaits the grouped requests it issued   *)
(*   pc = "pipeline" setManyCache awaits its pipeline, whose commands the  *)
(*                   store applies one by one, other callers' in between   *)
(*   pc = "returned" the call resolved with `result`                       *)
(*   pc = "failed"   the call rejected with `error`                        *)
(* fnArgs, fnValue, cmds and snap record what the call did: the arguments  *)
(* of each invocation of the caller's function, what it returned, the      *)
(* commands the call sent, and the store when the call was made.           *)

Keys == {<<"a">>, <<"b">>}
HashKey == <<"h">>
Values == {Undefined, Null, Num(1)}
TTLs == {Undefined} \cup {Num(n) : n \in 1..MaxTtl}
KeySeqs == UNION {[1..n -> Keys] : n \in 0..MaxKeys}
MapResults == {Obj(m) : m \in UNION {[S -> Values] : S \in SUBSET Keys}}
ArrayResults == {Arr(s) : s \in UNION {[1..n -> Values] : n \in 0..MaxKeys}}
CallIds == 1..NCalls

Idle ==
    [op |-> "", pc |-> "idle", key |-> <<>>, id |-> <<>>, keys |-> <<>>,
     prefix |-> <<>>, ttl |-> Undefined, amount |-> 0, float |-> FALSE,
     cachedValues |-> <<>>, uncachedKeys |-> <<>>, fnArgs |-> <<>>,
     fnValue |-> Undefined, result |-> Undefined, error |-> "", cmds |-> <<>>,
     snap |-> <<>>, value |-> Undefined,
     pattern |-> <<>>, batch |-> 0, unscanned |-> {}, scanned |-> {},
     pages |-> <<>>, pipeline |-> <<>>, jobs |-> <<>>]

Rejected(call, e) == [call EXCEPT !.pc = "failed", !.error = e]
Resolved(call, v) == [call EXCEPT !.pc = "returned", !.result = v]
Invoked(call, arg) == [call EXCEPT !.pc = "fn", !.fnArgs = Append(@, arg)]
Sent(call, cs) == [call EXCEPT !.cmds = @ \o cs]
Logged(c, cs) == history \o [i \in 1..Len(cs) |-> [by |-> c, cmd |-> cs[i]]]

\* mutant of Cache: a hit under a ttl refreshes the expiry of the entry
CacheTouch(c, key, ttl) ==
    /\ calls[c].pc = "idle"
    /\ LET r == getCache(store, key)
           hit == r.err = "" /\ r.value # NOT_FOUND_VALUE
           x == IF hit /\ ttl # Undefined THEN RedisExpire(r.st, key, ttl)
                ELSE Done(r.st, Undefined, Cmd("get", <<Str(key)>>))
           sent == IF hit /\ ttl # Undefined THEN r.cmds \o <<x.cmd>> ELSE r.cmds
           call == [Idle EXCEPT !.op = "cache", !.key = key, !.ttl = ttl,
                                !.snap = store, !.cmds = sent]
       IN  /\ store' = x.st
           /\ history' = Logged(c, sent)
           /\ calls' = [calls EXCEPT ![c] =
                  IF r.err # "" THEN Rejected(call, r.err)
                  ELSE IF r.value # NOT_FOUND_VALUE THEN Resolved(call, r.value)
                  ELSE Invoked(call, Undefined)]
    /\ UNCHANGED scene

\* async cache(key, fn, ttl): up to `await fn()`
Cache(c, key, ttl) ==
    /\ calls[c].pc = "idle"
    /\ LET r == getCache(store, key)
           call == [Idle EXCEPT !.op = "cache", !.key = key, !.ttl = ttl,
                                !.snap = store, !.cmds = r.cmds]
       IN  /\ store' = r.st
           /\ history' = Logged(c, r.cmds)
           /\ calls' = [calls EXCEPT ![c] =
                  IF r.err # "" THEN Rejected(call, r.err)
                  ELSE IF r.value # NOT_FOUND_VALUE THEN Resolved(call, r.value)
                  ELSE Invoked(call, Undefined)]
    /\ UNCHANGED scene

\* mutant of CacheResolved: the key is looked at again once fn() has
\* answered, and an entry that has appeared meanwhile is left in place
CacheResolvedUnlessSet(c, value) ==
    /\ calls[c].pc = "fn"
    /\ calls[c].op = "cache"
    /\ LET w == IF Has(store, calls[c].key) THEN Ret(store, Undefined, <<>>)
                ELSE setCache(store, calls[c].key, value, calls[c].ttl)
           call == Sent([calls[c] EXCEPT !.fnValue = value], w.cmds)
       IN  /\ store' = w.st
           /\ history' = Logged(c, w.cmds)
           /\ calls' = [calls EXCEPT ![c] =
                  IF w.err # "" THEN Rejected(call, w.err) ELSE Resolved(call, value)]
    /\ UNCHANGED scene

\* cache: fn() gave `value`; setCache, return
CacheResolved(c, value) ==
    /\ calls[c].pc = "fn"
    /\ calls[c].op = "cache"
    /\ LET w == setCache(store, calls[c].key, value, calls[c].ttl)
           call == Sent([calls[c] EXCEPT !.fnValue = value], w.cmds)
       IN  /\ store' = w.st
           /\ history' = Logged(c, w.cmds)
           /\ calls' = [calls EXCEPT ![c] =
                  IF w.err # "" THEN Rejected(call, w.err) ELSE Resolved(call, value)]
    /\ UNCHANGED scene

\* mutant of ResolverRaise: cache stores what it has (undefined) in a
\* `finally` before the error leaves
ResolverRaiseStores(c) ==
    /\ calls[c].pc = "fn"
    /\ calls[c].op \in {"cache", "hashCache", "manyCache", "hashManyCache"}
    /\ LET w == IF calls[c].op = "cache"
                THEN setCache(store, calls[c].key, Undefined, calls[c].ttl)
                ELSE Ret(store, Undefined, <<>>)
       IN  /\ store' = w.st
           /\ history' = Logged(c, w.cmds)
           /\ calls' = [calls EXCEPT ![c] = Rejected(Sent(@, w.cmds), "resolver")]
    /\ UNCHANGED scene

\* the resolver of a cache-aside call throws (or its promise rejects):
\* nothing catches it, the call rejects with it
ResolverRaise(c) ==
    /\ calls[c].pc = "fn"
    /\ calls[c].op \in {"cache", "hashCache", "manyCache", "hashManyCache"}
    /\ calls' = [calls EXCEPT ![c] = Rejected(@, "resolver")]
    /\ UNCHANGED <<store, history, scene>>

\* async hashCache(key, id, fn): up to `await fn()`
HashCache(c, key, id) ==
    /\ calls[c].pc = "idle"
    /\ LET r == getHashCache(store, key, id)
           call == [Idle EXCEPT !.op = "hashCache", !.key = key, !.id = id,
                                !.snap = store, !.cmds = r.cmds]
       IN  /\ store' = r.st
           /\ history' = Logged(c, r.cmds)
           /\ calls' = [calls EXCEPT ![c] =
                  IF r.err # "" THEN Rejected(call, r.err)
                  ELSE IF r.value # NOT_FOUND_VALUE THEN Resolved(call, r.value)
                  ELSE Invoked(call, Undefined)]
    /\ UNCHANGED scene

\* hashCache: fn() gave `value`; setHashCache, return
HashCacheResolved(c, value) ==
    /\ calls[c].pc = "fn"
    /\ calls[c].op = "hashCache"
    /\ LET w == setHashCache(store, calls[c].key, calls[c].id, value)
           call == Sent([calls[c] EXCEPT !.fnValue = value], w.cmds)
       IN  /\ store' = w.st
           /\ history' = Logged(c, w.cmds)
           /\ calls' = [calls EXCEPT ![c] =
                  IF w.err # "" THEN Rejected(call, w.err) ELSE Resolved(call, value)]
    /\ UNCHANGED scene

\* async manyCache(keys, fn, prefix, ttl): up to `await fn(uncachedKeys)`
ManyCache(c, keys, prefix, ttl) ==
    /\ calls[c].pc = "idle"
    /\ LET r == getManyCache(store, fullKeys(keys, prefix))
           call == [Idle EXCEPT !.op = "manyCache", !.keys = keys, !.prefix = prefix,
                                !.ttl = ttl, !.snap = store, !.cmds = r.cmds]
           uncachedKeys == Uncached(keys, r.value.arr, 1)
           read == [call EXCEPT !.cachedValues = r.value.arr,
                                !.uncachedKeys = uncachedKeys]
       IN  /\ store' = r.st
           /\ history' = Logged(c, r.cmds)
           /\ calls' = [calls EXCEPT ![c] =
                  IF r.err # "" THEN Rejected(call, r.err)
                  ELSE IF Len(uncachedKeys) # 0 THEN Invoked(read, Arr(uncachedKeys))
                  ELSE Resolved(read, r.value)]
    /\ UNCHANGED scene

\* mutant of ManyCacheResolved: the values that were hits are put into the map
\* as well, so the whole result is stored
ManyCacheResolvedStoresAll(c, uncachedValues) ==
    /\ calls[c].pc = "fn"
    /\ calls[c].op = "manyCache"
    /\ LET m == uncachedValueMap(calls[c].uncachedKeys, uncachedValues)
           hits == {i \in 1..Len(calls[c].keys) : calls[c].cachedValues[i] # NOT_FOUND_VALUE}
           all == [k \in DOMAIN m \cup {calls[c].keys[i] : i \in hits} |->
                      IF k \in DOMAIN m THEN m[k]
                      ELSE calls[c].cachedValues[CHOOSE i \in hits : calls[c].keys[i] = k]]
           w == setManyCache(store, fullKeyUncachedValueMap(all, calls[c].prefix),
                             calls[c].ttl)
           call == Sent([calls[c] EXCEPT !.fnValue = uncachedValues], w.cmds)
       IN  /\ store' = w.st
           /\ history' = Logged(c, w.cmds)
           /\ calls' = [calls EXCEPT ![c] =
                  IF w.err # "" THEN Rejected(call, w.err)
                  ELSE Resolved(call, Arr(Merged(call.keys, call.cachedValues, m)))]
    /\ UNCHANGED scene

\* manyCache: fn(uncachedKeys) gave `uncachedValues`; setManyCache, merge, return
ManyCacheResolved(c, uncachedValues) ==
    /\ calls[c].pc = "fn"
    /\ calls[c].op = "manyCache"
    /\ LET m == uncachedValueMap(calls[c].uncachedKeys, uncachedValues)
           w == setManyCache(store, fullKeyUncachedValueMap(m, calls[c].prefix),
                             calls[c].ttl)
           call == Sent([calls[c] EXCEPT !.fnValue = uncachedValues], w.cmds)
       IN  /\ store' = w.st
           /\ history' = Logged(c, w.cmds)
           /\ calls' = [calls EXCEPT ![c] =
                  IF w.err # "" THEN Rejected(call, w.err)
                  ELSE Resolved(call, Arr(Merged(call.keys, call.cachedValues, m)))]
    /\ UNCHANGED scene

\* async hashManyCache(key, ids, fn): up to `await fn(uncachedIds)`
HashManyCache(c, key, ids) ==
    /\ calls[c].pc = "idle"
    /\ LET r == getHashManyCache(store, key, ids)
           call == [Idle EXCEPT !.op = "hashManyCache", !.key = key, !.keys = ids,
                                !.snap = store, !.cmds = r.cmds]
           uncachedIds == Uncached(ids, r.value.arr, 1)
           read == [call EXCEPT !.cachedValues = r.value.arr,
                                !.uncachedKeys = uncachedIds]
       IN  /\ store' = r.st
           /\ history' = Logged(c, r.cmds)
           /\ calls' = [calls EXCEPT ![c] =
                  IF r.err # "" THEN Rejected(call, r.err)
                  ELSE IF Len(uncachedIds) # 0 THEN Invoked(read, Arr(uncachedIds))
                  ELSE Resolved(read, r.value)]
    /\ UNCHANGED scene

\* mutant of HashManyCacheResolved: an array from the resolver is laid by
\* position over the ids that were requested instead of over the misses
HashManyCacheResolvedByInput(c, uncachedValues) ==
    /\ calls[c].pc = "fn"
    /\ calls[c].op = "hashManyCache"
    /\ LET m == uncachedValueMap(calls[c].keys, uncachedValues)
           w == setHashManyCache(store, calls[c].key, m)
           call == Sent([calls[c] EXCEPT !.fnValue = uncachedValues], w.cmds)
       IN  /\ store' = w.st
           /\ history' = Logged(c, w.cmds)
           /\ calls' = [calls EXCEPT ![c] =
                  IF w.err # "" THEN Rejected(call, w.err)
                  ELSE Resolved(call, Arr(Merged(call.keys, call.cachedValues, m)))]
    /\ UNCHANGED scene

\* hashManyCache: fn(uncachedIds) gave `uncachedValues`; setHashManyCache, merge, return
HashManyCacheResolved(c, uncachedValues) ==
    /\ calls[c].pc = "fn"
    /\ calls[c].op = "hashManyCache"
    /\ LET m == uncachedValueMap(calls[c].uncachedKeys, uncachedValues)
           w == setHashManyCache(store, calls[c].key, m)
           call == Sent([calls[c] EXCEPT !.fnValue = uncachedValues], w.cmds)
       IN  /\ store' = w.st
           /\ history' = Logged(c, w.cmds)
           /\ calls' = [calls EXCEPT ![c] =
                  IF w.err # "" THEN Rejected(call, w.err)
                  ELSE Resolved(call, Arr(Merged(call.keys, call.cachedValues, m)))]
    /\ UNCHANGED scene

\* async deleteCache(...keys)
DeleteCache(c, keys) ==
    /\ calls[c].pc = "idle"
    /\ LET r == deleteCache(store, keys)
           call == [Idle EXCEPT !.op = "deleteCache", !.keys = keys,
                                !.snap = store, !.cmds = r.cmds]
       IN  /\ store' = r.st
           /\ history' = Logged(c, r.cmds)
           /\ calls' = [calls EXCEPT ![c] =
                  IF r.err # "" THEN Rejected(call, r.err) ELSE Resolved(call, r.value)]
    /\ UNCHANGED scene

\* A call of a method that awaits nothing but its one store request runs in
\* one step: the outcome of the request is the outcome of the call.
Settled(call, r) == IF r.err # "" THEN Rejected(call, r.err) ELSE Resolved(call, r.value)

\* async getCache(key)
GetCache(c, key) ==
    /\ calls[c].pc = "idle"
    /\ LET r == getCache(store, key)
           call == [Idle EXCEPT !.op = "getCache", !.key = key,
                                !.snap = store, !.cmds = r.cmds]
       IN  /\ store' = r.st
           /\ history' = Logged(c, r.cmds)
           /\ calls' = [calls EXCEPT ![c] = Settled(call, r)]
    /\ UNCHANGED scene

\* async setCache(key, value, ttl)
SetCache(c, key, value, ttl) ==
    /\ calls[c].pc = "idle"
    /\ LET r == setCache(store, key, value, ttl)
           call == [Idle EXCEPT !.op = "setCache", !.key = key, !.value = value,
                                !.ttl = ttl, !.snap = store, !.cmds = r.cmds]
       IN  /\ store' = r.st
           /\ history' = Logged(c, r.cmds)
           /\ calls' = [calls EXCEPT ![c] = Settled(call, r)]
    /\ UNCHANGED scene

\* async getManyCache(keys)
GetManyCache(c, keys) ==
    /\ calls[c].pc = "idle"
    /\ LET r == getManyCache(store, keys)
           call == [Idle EXCEPT !.op = "getManyCache", !.keys = keys,
                                !.snap = store, !.cmds = r.cmds]
       IN  /\ store' = r.st
           /\ history' = Logged(c, r.cmds)
           /\ calls' = [calls EXCEPT ![c] = Settled(call, r)]
    /\ UNCHANGED scene

\* async setManyCache(valueMap, ttl)
SetManyCache(c, valueMap, ttl) ==
    /\ calls[c].pc = "idle"
    /\ LET r == setManyCache(store, valueMap, ttl)
           call == [Idle EXCEPT !.op = "setManyCache", !.value = Obj(valueMap),
                                !.ttl = ttl, !.snap = store, !.cmds = r.cmds]
       IN  /\ store' = r.st
           /\ history' = Logged(c, r.cmds)
           /\ calls' = [calls EXCEPT ![c] = Settled(call, r)]
    /\ UNCHANGED scene

\* mutant of SetManyCacheMset: every key is written together with its expiry
\* (a SET ... EX per key), and the EXPIRE commands follow all the same
SetManyCacheMsetWithExpiry(c, valueMap, ttl) ==
    /\ calls[c].pc = "idle"
    /\ ttl # Undefined
    /\ DOMAIN valueMap # {}
    /\ LET m == RedisMset(store, _buildSetParams(valueMap))
           p == ExpireAll([st |-> m.st, cmds |-> <<>>], ObjectKeys(valueMap), ttl)
           call == [Idle EXCEPT !.op = "setManyCache", !.pc = "pipeline",
                                !.value = Obj(valueMap), !.ttl = ttl, !.snap = store,
                                !.cmds = <<m.cmd>>, !.pipeline = ObjectKeys(valueMap)]
       IN  /\ store' = p.st
           /\ history' = Logged(c, <<m.cmd>>)
           /\ calls' = [calls EXCEPT ![c] = call]
    /\ UNCHANGED scene

\* setManyCache(valueMap, ttl) with a ttl and a map that is not empty, among
\* other callers: the pipeline is sent and the store applies its first
\* command, the MSET; call.pipeline holds the keys whose EXPIRE is to come
SetManyCacheMset(c, valueMap, ttl) ==
    /\ calls[c].pc = "idle"
    /\ ttl # Undefined
    /\ DOMAIN valueMap # {}
    /\ LET m == RedisMset(store, _buildSetParams(valueMap))
           call == [Idle EXCEPT !.op = "setManyCache", !.pc = "pipeline",
                                !.value = Obj(valueMap), !.ttl = ttl, !.snap = store,
                                !.cmds = <<m.cmd>>, !.pipeline = ObjectKeys(valueMap)]
       IN  /\ store' = m.st
           /\ history' = Logged(c, <<m.cmd>>)
           /\ calls' = [calls EXCEPT ![c] = call]
    /\ UNCHANGED scene

\* setManyCache, pipeline: the store applies the next EXPIRE; after the last
\* one pipeline.exec() resolves, and so does the call
SetManyCacheExpire(c) ==
    /\ calls[c].pc = "pipeline"
    /\ calls[c].op = "setManyCache"
    /\ LET e == RedisExpire(store, Head(calls[c].pipeline), calls[c].ttl)
           call == Sent([calls[c] EXCEPT !.pipeline = Tail(@)], <<e.cmd>>)
       IN  /\ store' = e.st
           /\ history' = Logged(c, <<e.cmd>>)
           /\ calls' = [calls EXCEPT ![c] =
                  IF call.pipeline = <<>> THEN Resolved(call, Arr(<<>>)) ELSE call]
    /\ UNCHANGED scene

\* async getHashCache(key, id)
GetHashCache(c, key, id) ==
    /\ calls[c].pc = "idle"
    /\ LET r == getHashCache(store, key, id)
           call == [Idle EXCEPT !.op = "getHashCache", !.key = key, !.id = id,
                                !.snap = store, !.cmds = r.cmds]
       IN  /\ store' = r.st
           /\ history' = Logged(c, r.cmds)
           /\ calls' = [calls EXCEPT ![c] = Settled(call, r)]
    /\ UNCHANGED scene

\* async setHashCache(key, id, value)
SetHashCache(c, key, id, value) ==
    /\ calls[c].pc = "idle"
    /\ LET r == setHashCache(store, key, id, value)
           call == [Idle EXCEPT !.op = "setHashCache", !.key = key, !.id = id,
                                !.value = value, !.snap = store, !.cmds = r.cmds]
       IN  /\ store' = r.st
           /\ history' = Logged(c, r.cmds)
           /\ calls' = [calls EXCEPT ![c] = Settled(call, r)]
    /\ UNCHANGED scene

\* async getHashManyCache(key, ids)
GetHashManyCache(c, key, ids) ==
    /\ calls[c].pc = "idle"
    /\ LET r == getHashManyCache(store, key, ids)
           call == [Idle EXCEPT !.op = "getHashManyCache", !.key = key, !.keys = ids,
                                !.snap = store, !.cmds = r.cmds]
       IN  /\ store' = r.st
           /\ history' = Logged(c, r.cmds)
           /\ calls' = [calls EXCEPT ![c] = Settled(call, r)]
    /\ UNCHANGED scene

\* async setHashManyCache(key, valueMap)
SetHashManyCache(c, key, valueMap) ==
    /\ calls[c].pc = "idle"
    /\ LET r == setHashManyCache(store, key, valueMap)
           call == [Idle EXCEPT !.op = "setHashManyCache", !.key = key,
                                !.value = Obj(valueMap), !.snap = store, !.cmds = r.cmds]
       IN  /\ store' = r.st
           /\ history' = Logged(c, r.cmds)
           /\ calls' = [calls EXCEPT ![c] = Settled(call, r)]
    /\ UNCHANGED scene

\* the counter a key holds, for the guard that keeps counters within MaxCounter
CounterOf(st, key) ==
    IF Has(st, key) /\ st[Phys(key)].kind = "string" /\ IsIntText(st[Phys(key)].text)
    THEN IntVal(st[Phys(key)].text) ELSE 0

\* mutant of Acquire: fn is invoked with the value the counter is about to
\* have, before the increment is sent
AcquireInvokesFirst(c, key, amount, float) ==
    /\ calls[c].pc = "idle"
    /\ CounterOf(store, key) + amount <= MaxCounter
    /\ LET call == [Idle EXCEPT !.op = "acquire", !.key = key, !.amount = amount,
                                !.float = float, !.snap = store]
       IN  calls' = [calls EXCEPT ![c] =
               Invoked(call, Num(CounterOf(store, key) + amount))]
    /\ UNCHANGED <<store, history, scene>>

\* async acquire(key, amount, fn, float): up to `await fn(parser(current))`,
\* or into the catch block when the increment is refused
Acquire(c, key, amount, float) ==
    /\ calls[c].pc = "idle"
    /\ CounterOf(store, key) + amount <= MaxCounter
    /\ LET r == RedisIncr(store, key, amount, float)
           call == [Idle EXCEPT !.op = "acquire", !.key = key, !.amount = amount,
                                !.float = float, !.snap = store, !.cmds = <<r.cmd>>]
       IN  /\ store' = r.st
           /\ history' = Logged(c, <<r.cmd>>)
           /\ calls' = [calls EXCEPT ![c] =
                  IF r.err # "" THEN [call EXCEPT !.pc = "catch", !.error = r.err]
                  ELSE Invoked(call, parser(r.reply))]
    /\ UNCHANGED scene

\* mutant of AcquireBodyReturn: the release sits in a `finally`, so a body
\* that completes gives its amount back too
AcquireBodyReturnReleases(c, result) ==
    /\ calls[c].pc = "fn"
    /\ calls[c].op = "acquire"
    /\ LET r == RedisIncr(store, calls[c].key, 0 - calls[c].amount, calls[c].float)
           call == Sent([calls[c] EXCEPT !.fnValue = result], <<r.cmd>>)
       IN  /\ store' = r.st
           /\ history' = Logged(c, <<r.cmd>>)
           /\ calls' = [calls EXCEPT ![c] =
                  IF r.err # "" THEN Rejected(call, r.err) ELSE Resolved(call, result)]
    /\ UNCHANGED scene

\* acquire: fn(current) gave `result`; return it
AcquireBodyReturn(c, result) ==
    /\ calls[c].pc = "fn"
    /\ calls[c].op = "acquire"
    /\ calls' = [calls EXCEPT ![c] = Resolved([@ EXCEPT !.fnValue = result], result)]
    /\ UNCHANGED <<store, history, scene>>

\* acquire: fn(current) throws; the catch block takes the error
AcquireBodyRaise(c) ==
    /\ calls[c].pc = "fn"
    /\ calls[c].op = "acquire"
    /\ calls' = [calls EXCEPT ![c] = [@ EXCEPT !.pc = "catch", !.error = "body"]]
    /\ UNCHANGED <<store, history, scene>>

\* mutant of AcquireRelease: the catch block rethrows without the decrement
AcquireReleaseSkips(c) ==
    /\ calls[c].pc = "catch"
    /\ calls[c].op = "acquire"
    /\ calls' = [calls EXCEPT ![c] = Rejected(@, @.error)]
    /\ UNCHANGED <<store, history, scene>>

\* mutant of AcquireRelease: the catch block puts back the value the counter
\* had before the call instead of taking its amount off
AcquireReleaseRestores(c) ==
    /\ calls[c].pc = "catch"
    /\ calls[c].op = "acquire"
    /\ LET before == Num(CounterOf(calls[c].snap, calls[c].key))
           r == RedisSet(store, calls[c].key, Str(toArg(before)))
           call == Sent(calls[c], <<r.cmd>>)
       IN  /\ store' = r.st
           /\ history' = Logged(c, <<r.cmd>>)
           /\ calls' = [calls EXCEPT ![c] =
                  IF r.err # "" THEN Rejected(call, r.err)
                  ELSE Rejected(call, call.error)]
    /\ UNCHANGED scene

\* acquire, catch block: `await change(key, -amount)`, then `throw error`; when
\* the decrement is refused the await throws and its error leaves instead
AcquireRelease(c) ==
    /\ calls[c].pc = "catch"
    /\ calls[c].op = "acquire"
    /\ LET r == RedisIncr(store, calls[c].key, 0 - calls[c].amount, calls[c].float)
           call == Sent(calls[c], <<r.cmd>>)
       IN  /\ store' = r.st
           /\ history' = Logged(c, <<r.cmd>>)
           /\ calls' = [calls EXCEPT ![c] =
                  IF r.err # "" THEN Rejected(call, r.err)
                  ELSE Rejected(call, call.error)]
    /\ UNCHANGED scene

\* the counter a field of a hash holds
FieldCounterOf(st, key, id) ==
    IF id \in DOMAIN FieldsOf(st, key) /\ IsIntText(FieldsOf(st, key)[id])
    THEN IntVal(FieldsOf(st, key)[id]) ELSE 0

\* async hashAcquire(key, id, amount, fn, float): up to `await fn(parser(current))`,
\* or into the catch block when the increment is refused
HashAcquire(c, key, id, amount, float) ==
    /\ calls[c].pc = "idle"
    /\ FieldCounterOf(store, key, id) + amount <= MaxCounter
    /\ LET r == RedisHincr(store, key, id, amount, float)
           call == [Idle EXCEPT !.op = "hashAcquire", !.key = key, !.id = id,
                                !.amount = amount, !.float = float,
                                !.snap = store, !.cmds = <<r.cmd>>]
       IN  /\ store' = r.st
           /\ history' = Logged(c, <<r.cmd>>)
           /\ calls' = [calls EXCEPT ![c] =
                  IF r.err # "" THEN [call EXCEPT !.pc = "catch", !.error = r.err]
                  ELSE Invoked(call, parser(r.reply))]
    /\ UNCHANGED scene

\* hashAcquire: fn(current) gave `result`; return it
HashAcquireBodyReturn(c, result) ==
    /\ calls[c].pc = "fn"
    /\ calls[c].op = "hashAcquire"
    /\ calls' = [calls EXCEPT ![c] = Resolved([@ EXCEPT !.fnValue = result], result)]
    /\ UNCHANGED <<store, history, scene>>

\* hashAcquire: fn(current) throws; the catch block takes the error
HashAcquireBodyRaise(c) ==
    /\ calls[c].pc = "fn"
    /\ calls[c].op = "hashAcquire"
    /\ calls' = [calls EXCEPT ![c] = [@ EXCEPT !.pc = "catch", !.error = "body"]]
    /\ UNCHANGED <<store, history, scene>>

\* mutant of HashAcquireRelease: the catch block rethrows without the decrement
HashAcquireReleaseSkips(c) ==
    /\ calls[c].pc = "catch"
    /\ calls[c].op = "hashAcquire"
    /\ calls' = [calls EXCEPT ![c] = Rejected(@, @.error)]
    /\ UNCHANGED <<store, history, scene>>

\* mutant of HashAcquireRelease: the decrement is held back while another
\* call is in its catch block
HashAcquireReleaseWaits(c) ==
    /\ calls[c].pc = "catch"
    /\ calls[c].op = "hashAcquire"
    /\ \A d \in CallIds \ {c} : calls[d].pc # "catch"
    /\ LET r == RedisHincr(store, calls[c].key, calls[c].id, 0 - calls[c].amount,
                           calls[c].float)
           call == Sent(calls[c], <<r.cmd>>)
       IN  /\ store' = r.st
           /\ history' = Logged(c, <<r.cmd>>)
           /\ calls' = [calls EXCEPT ![c] =
                  IF r.err # "" THEN Rejected(call, r.err)
                  ELSE Rejected(call, call.error)]
    /\ UNCHANGED scene

\* hashAcquire, catch block: `await change(key, id, -amount)`, then `throw error`
HashAcquireRelease(c) ==
    /\ calls[c].pc = "catch"
    /\ calls[c].op = "hashAcquire"
    /\ LET r == RedisHincr(store, calls[c].key, calls[c].id, 0 - calls[c].amount,
                           calls[c].float)
           call == Sent(calls[c], <<r.cmd>>)
       IN  /\ store' = r.st
           /\ history' = Logged(c, <<r.cmd>>)
           /\ calls' = [calls EXCEPT ![c] =
                  IF r.err # "" THEN Rejected(call, r.err)
                  ELSE Rejected(call, call.error)]
    /\ UNCHANGED scene

\* async deleteHashCache(key, ...ids)
DeleteHashCache(c, key, ids) ==
    /\ calls[c].pc = "idle"
    /\ LET r == deleteHashCache(store, key, ids)
           call == [Idle EXCEPT !.op = "deleteHashCache", !.key = key, !.keys = ids,
                                !.snap = store, !.cmds = r.cmds]
       IN  /\ store' = r.st
           /\ history' = Logged(c, r.cmds)
           /\ calls' = [calls EXCEPT ![c] = Settled(call, r)]
    /\ UNCHANGED scene

\* key.substring(length), length being this.prefix.length

\* a grouped request: the keys of its DEL commands, and its replies once the
\* store has applied it
Job(ks) == [keys |-> ks, landed |-> FALSE, replies |-> <<>>]

\* async deletePattern(pattern, batch): up to the first wait on the scan
\* stream.  The scan is to pass over the keys the store holds now.
DeletePattern(c, pattern, batch) ==
    /\ calls[c].pc = "idle"
    /\ calls' = [calls EXCEPT ![c] =
           [Idle EXCEPT !.op = "deletePattern", !.pc = "scan", !.pattern = pattern,
                        !.batch = batch, !.unscanned = DOMAIN store, !.snap = store]]
    /\ UNCHANGED <<store, history, scene>>

\* mutant of DeletePatternPage: pipeline.del(key) with the key as the scan
\* gave it, prefix included
DeletePatternPageKeepsPrefix(c, visited, again) ==
    /\ calls[c].pc = "scan"
    /\ visited \subseteq calls[c].unscanned
    /\ again \subseteq calls[c].scanned \cap DOMAIN store
    /\ calls[c].unscanned # {} \/ calls[c].pages = <<>>
    /\ visited # {} \/ calls[c].unscanned = {} \/ Denied("scan") \/ calls[c].batch < 1
    /\ LET r == RedisScan(store, keyPrefix \o calls[c].pattern, calls[c].batch,
                          visited \cap DOMAIN store, again)
           keys == r.reply.arr
           pipeline == calls[c].pipeline \o keys
           full == Len(pipeline) >= calls[c].batch
           call == Sent(calls[c], <<r.cmd>>)
       IN  /\ store' = r.st
           /\ history' = Logged(c, <<r.cmd>>)
           /\ calls' = [calls EXCEPT ![c] =
                  IF r.err # "" THEN Rejected(call, r.err)
                  ELSE [call EXCEPT !.unscanned = @ \ visited,
                                    !.scanned = @ \cup visited,
                                    !.pages = Append(@, keys),
                                    !.pipeline = IF full THEN <<>> ELSE pipeline,
                                    !.jobs = IF full THEN Append(@, Job(pipeline)) ELSE @]]
    /\ UNCHANGED scene

\* deletePattern: the stream delivers a page; one pipeline.del per key of the
\* page, and when the pipeline holds `batch` commands or more it is executed
\* (not awaited) and a new one begun.  A SCAN the store refuses ends the
\* stream with that error, which leaves the loop and the method.
DeletePatternPage(c, visited, again) ==
    /\ calls[c].pc = "scan"
    /\ visited \subseteq calls[c].unscanned
    /\ again \subseteq calls[c].scanned \cap DOMAIN store
    /\ calls[c].unscanned # {} \/ calls[c].pages = <<>>
    /\ visited # {} \/ calls[c].unscanned = {} \/ Denied("scan") \/ calls[c].batch < 1
    /\ LET r == RedisScan(store, keyPrefix \o calls[c].pattern, calls[c].batch,
                          visited \cap DOMAIN store, again)
           keys == r.reply.arr
           \* key.substring(length)
           pipeline == calls[c].pipeline
                       \o [i \in 1..Len(keys) |->
                              SubSeq(keys[i], Len(keyPrefix) + 1, Len(keys[i]))]
           full == Len(pipeline) >= calls[c].batch
           call == Sent(calls[c], <<r.cmd>>)
       IN  /\ store' = r.st
           /\ history' = Logged(c, <<r.cmd>>)
           /\ calls' = [calls EXCEPT ![c] =
                  IF r.err # "" THEN Rejected(call, r.err)
                  ELSE [call EXCEPT !.unscanned = @ \ visited,
                                    !.scanned = @ \cup visited,
                                    !.pages = Append(@, keys),
                                    !.pipeline = IF full THEN <<>> ELSE pipeline,
                                    !.jobs = IF full THEN Append(@, Job(pipeline)) ELSE @]]
    /\ UNCHANGED scene

\* mutant of DeletePatternEnd: the pipeline in hand at the end of the stream
\* is not executed
DeletePatternEndDrops(c) ==
    /\ calls[c].pc = "scan"
    /\ calls[c].unscanned = {}
    /\ calls[c].pages # <<>>
    /\ calls' = [calls EXCEPT ![c] = [@ EXCEPT !.pc = "jobs", !.pipeline = <<>>]]
    /\ UNCHANGED <<store, history, scene>>

\* deletePattern: the stream has ended; the pipeline in hand is executed too
\* and the method waits for all the requests
DeletePatternEnd(c) ==
    /\ calls[c].pc = "scan"
    /\ calls[c].unscanned = {}
    /\ calls[c].pages # <<>>
    /\ calls' = [calls EXCEPT ![c] =
           [@ EXCEPT !.pc = "jobs", !.pipeline = <<>>,
                     !.jobs = Append(@, Job(calls[c].pipeline))]]
    /\ UNCHANGED <<store, history, scene>>

\* the store applies one of the grouped requests of a deletePattern that it
\* has not applied yet; the method asks no order of them (Promise.all)
DeletePatternLands(c) ==
    /\ calls[c].op = "deletePattern"
    /\ \E j \in 1..Len(calls[c].jobs) :
           /\ ~calls[c].jobs[j].landed
           /\ LET r == PipelineDel([st |-> store, cmds |-> <<>>, replies |-> <<>>],
                                   calls[c].jobs[j].keys)
              IN  /\ store' = r.st
                  /\ history' = Logged(c, r.cmds)
                  /\ calls' = [calls EXCEPT ![c] =
                         Sent([@ EXCEPT !.jobs[j] = [@ EXCEPT !.landed = TRUE,
                                                              !.replies = r.replies]],
                              r.cmds)]
    /\ UNCHANGED scene

\* mutant of DeletePatternReturn: the method returns when the first of the
\* requests has completed
DeletePatternReturnsAtFirst(c) ==
    /\ calls[c].pc = "jobs"
    /\ \E j \in 1..Len(calls[c].jobs) : calls[c].jobs[j].landed
    /\ calls' = [calls EXCEPT ![c] = Resolved(@, Undefined)]
    /\ UNCHANGED <<store, history, scene>>

\* deletePattern: `await Promise.all(jobs)` is over, the method returns
DeletePatternReturn(c) ==
    /\ calls[c].pc = "jobs"
    /\ \A j \in 1..Len(calls[c].jobs) : calls[c].jobs[j].landed
    /\ calls' = [calls EXCEPT ![c] = Resolved(@, Undefined)]
    /\ UNCHANGED <<store, history, scene>>

\* the caller has taken the outcome of a finished call
Retire(c) ==
    /\ calls[c].pc \in {"returned", "failed"}
    /\ calls' = [calls EXCEPT ![c] = Idle]
    /\ history' = SelectSeq(history, LAMBDA h : h.by # c)
    /\ UNCHANGED <<store, scene>>

AllIdle == \A c \in CallIds : calls[c].pc = "idle"

\* a second passes between two calls
Tick ==
    /\ AllIdle
    /\ \E x \in DOMAIN store : store[x].exp # 0
    /\ store' = Elapse(store)
    /\ UNCHANGED <<calls, history, scene>>

-----------------------------------------------------------------------------
(* Spec: one caller, one call at a time, in one of the scenes:             *)
(*   plain    values under the top-level keys prefix+key                   *)
(*   hash     values under the fields of the hash HashKey                  *)
(*   counter  top-level keys used as counters by acquire                   *)

\* the one caller of the sequential runs
Caller == CHOOSE c \in CallIds : \A d \in CallIds : c <= d
Amounts == 1..MaxAmount

\* what the caller passes in one scene: S in the scene `kind`, nothing elsewhere
In(kind, S) == IF scene.kind = kind THEN S ELSE {}

Init ==
    /\ store = <<>>
    /\ calls = [c \in CallIds |-> Idle]
    /\ history = <<>>
    /\ scene \in {[kind |-> "plain", prefix |-> p, denied |-> {}] : p \in {<<>>, <<"p">>}}
                 \cup {[kind |-> "hash", prefix |-> <<>>, denied |-> {}],
                       [kind |-> "counter", prefix |-> <<>>, denied |-> {}]}

\* what the caller of a scene passes
PlainPrefixes == IF scene.kind = "plain" THEN {scene.prefix} ELSE {}

Next ==
    \/ \E k \in In("plain", {scene.prefix \o k : k \in Keys}) \cup In("counter", Keys),
          ttl \in TTLs :
           Cache(Caller, k, ttl)
    \/ \E v \in Values : CacheResolved(Caller, v)
    \/ \E p \in PlainPrefixes, ks \in KeySeqs, ttl \in TTLs : ManyCache(Caller, ks, p, ttl)
    \/ \E uv \in MapResults \cup ArrayResults : ManyCacheResolved(Caller, uv)
    \/ \E p \in PlainPrefixes, ks \in KeySeqs : DeleteCache(Caller, fullKeys(ks, p))
    \/ \E h \in In("hash", {HashKey}), k \in Keys : HashCache(Caller, h, k)
    \/ \E v \in Values : HashCacheResolved(Caller, v)
    \/ \E h \in In("hash", {HashKey}), ks \in KeySeqs : HashManyCache(Caller, h, ks)
    \/ \E uv \in MapResults \cup ArrayResults : HashManyCacheResolved(Caller, uv)
    \/ \E k \in In("counter", Keys), n \in Amounts, float \in BOOLEAN :
           Acquire(Caller, k, n, float)
    \/ \E v \in Values : AcquireBodyReturn(Caller, v)
    \/ AcquireBodyRaise(Caller)
    \/ AcquireRelease(Caller)
    \/ ResolverRaise(Caller)
    \/ Retire(Caller)
    \/ Tick

Spec == Init /\ [][Next]_vars
-----------------------------------------------------------------------------
(* SpecConc: NCalls independent callers, each making one call of cache on  *)
(* the same key, interleaved at their awaits.  The store applies one       *)
(* command at a time.  The callers are numbered in the order they call.    *)

\* the key the concurrent callers share
ConcKeys == {<<"a">>}

InitConc ==
    /\ store = <<>>
    /\ calls = [c \in CallIds |-> Idle]
    /\ history = <<>>
    /\ scene = [kind |-> "concurrent", prefix |-> <<>>, denied |-> {}]

\* a second passes, at any moment of any call; the history keeps when
Pass ==
    /\ \E x \in DOMAIN store : store[x].exp # 0
    /\ store' = Elapse(store)
    /\ history' = Append(history, [by |-> 0, cmd |-> Cmd("second", <<>>)])
    /\ UNCHANGED <<calls, scene>>

NextConc ==
    \/ \E c \in CallIds, k \in ConcKeys, ttl \in TTLs :
           /\ \A b \in CallIds : b < c => calls[b].pc # "idle"
           /\ Cache(c, k, ttl)
    \/ \E c \in CallIds, v \in Values : CacheResolved(c, v)
    \/ \E c \in CallIds : ResolverRaise(c)
    \/ Pass

SpecConc == InitConc /\ [][NextConc]_vars
-----------------------------------------------------------------------------
(* SpecRace: NCalls independent callers on the shared key, each making one *)
(* call of acquire or of setCache, interleaved at their awaits.  A write   *)
(* of the key may land between the increment of an acquire and its         *)
(* decrement.                                                              *)

InitRace ==
    /\ store = <<>>
    /\ calls = [c \in CallIds |-> Idle]
    /\ history = <<>>
    /\ scene = [kind |-> "race", prefix |-> <<>>, denied |-> {}]

\* the callers before c have all made their call
InTurn(c) == \A b \in CallIds : b < c => calls[b].pc # "idle"

NextRace ==
    \/ \E c \in CallIds, k \in ConcKeys, n \in Amounts, float \in BOOLEAN :
           InTurn(c) /\ Acquire(c, k, n, float)
    \/ \E c \in CallIds, v \in Values : AcquireBodyReturn(c, v)
    \/ \E c \in CallIds : AcquireBodyRaise(c)
    \/ \E c \in CallIds : AcquireRelease(c)
    \/ \E c \in CallIds, k \in ConcKeys, v \in Values, ttl \in TTLs :
           InTurn(c) /\ SetCache(c, k, v, ttl)

SpecRace == InitRace /\ [][NextRace]_vars
-----------------------------------------------------------------------------
(* SpecSeq: one caller makes two calls, one after the other, and time may  *)
(* pass between them.  Both calls stay on record, so what the second call  *)
(* reads can be set against what the first one wrote.  The scenes:         *)
(*   point   setCache, getCache and cache on the shared key                *)
(*   batch   setManyCache, getManyCache and manyCache under a prefix       *)
(*   repeat  manyCache, and then manyCache with the same arguments         *)
(*   hashes  the hash methods on the fields of HashKey                     *)
(* Outside the scene repeat a batch call is followed up to the invocation  *)
(* of its resolver, or to the resolver's failure.                          *)

First == Caller
Second == First + 1

\* the values the codec is given: the resolver values, and the falsy 0, false
\* and empty string next to a string that is not empty
CodecValues == Values \cup {Num(0), Bool(FALSE), Str(<<>>), Str(<<"x">>)}

SeqScenes ==
    {[kind |-> "point", prefix |-> <<>>, denied |-> {}],
     [kind |-> "batch", prefix |-> <<"p">>, denied |-> {}],
     [kind |-> "repeat", prefix |-> <<"p">>, denied |-> {}],
     [kind |-> "hashes", prefix |-> <<>>, denied |-> {}]}

InitSeq ==
    /\ store = <<>>
    /\ calls = [c \in CallIds |-> Idle]
    /\ history = <<>>
    /\ scene \in SeqScenes

Finished(c) == calls[c].pc \in {"returned", "failed"}

\* the calls that may be made now: the first, and the second once the first is over
Turns == IF Finished(First) THEN {Second} ELSE {First}

PointKeys == IF scene.kind = "point" THEN ConcKeys ELSE {}
BatchPrefixes == IF scene.kind = "batch" THEN {scene.prefix} ELSE {}
FieldKeys == IF scene.kind = "hashes" THEN {HashKey} ELSE {}

NextSeq ==
    \/ \E c \in Turns, k \in PointKeys, v \in CodecValues, ttl \in TTLs : SetCache(c, k, v, ttl)
    \/ \E c \in Turns, k \in PointKeys : GetCache(c, k)
    \/ \E c \in Turns, k \in PointKeys, ttl \in TTLs : Cache(c, k, ttl)
    \/ \E c \in {First, Second}, v \in Values : CacheResolved(c, v)
    \/ \E c \in Turns, p \in BatchPrefixes, ttl \in TTLs :
           \E m \in UNION {[S -> Values] : S \in SUBSET {p \o k : k \in Keys}} :
               SetManyCache(c, m, ttl)
    \/ \E c \in Turns, p \in BatchPrefixes, ks \in KeySeqs : GetManyCache(c, fullKeys(ks, p))
    \/ \E c \in Turns, p \in BatchPrefixes, ks \in KeySeqs, ttl \in TTLs :
           ManyCache(c, ks, p, ttl)
    \/ \E p \in In("repeat", {scene.prefix}), ks \in KeySeqs, ttl \in TTLs :
           ManyCache(First, ks, p, ttl)
    \/ \E uv \in In("repeat", MapResults \cup ArrayResults) : ManyCacheResolved(First, uv)
    \/ \E p \in In("repeat", {scene.prefix}) :
           /\ Finished(First)
           /\ ManyCache(Second, calls[First].keys, p, calls[First].ttl)
    \/ \E c \in Turns, h \in FieldKeys, f \in Keys, v \in CodecValues : SetHashCache(c, h, f, v)
    \/ \E c \in Turns, h \in FieldKeys, f \in Keys : GetHashCache(c, h, f)
    \/ \E c \in Turns, h \in FieldKeys, f \in Keys : HashCache(c, h, f)
    \/ \E c \in {First, Second}, v \in Values : HashCacheResolved(c, v)
    \/ \E c \in Turns, h \in FieldKeys, m \in UNION {[S -> Values] : S \in SUBSET Keys} :
           SetHashManyCache(c, h, m)
    \/ \E c \in Turns, h \in FieldKeys, ks \in KeySeqs : GetHashManyCache(c, h, ks)
    \/ \E c \in Turns, h \in FieldKeys, ks \in KeySeqs : HashManyCache(c, h, ks)
    \/ \E c \in {First, Second} : ResolverRaise(c)
    \/ \E c \in Turns : c = Second /\ calls[c].pc = "idle" /\ Pass

SpecSeq == InitSeq /\ [][NextSeq]_vars
-----------------------------------------------------------------------------
(* SpecDel: one caller, one call at a time, fills the store and deletes    *)
(* from it.  The scenes:                                                   *)
(*   drop    deleteCache and deleteHashCache over the keys of Keys and the *)
(*           hash HashKey                                                  *)
(*   erase   deletePattern over the keys a, b, ab and the hash HashKey     *)
(* After a deleteCache a second caller may read a field of the hash, while *)
(* the record of the delete is still there.                                *)


InitDel ==
    /\ store = <<>>
    /\ calls = [c \in CallIds |-> Idle]
    /\ history = <<>>
    /\ scene \in {[kind |-> k, prefix |-> <<>>, denied |-> {}] : k \in {"drop", "erase"}}


\* every grouped request of the call has been applied
NothingInFlight(c) == \A j \in 1..Len(calls[c].jobs) : calls[c].jobs[j].landed

NextDel ==
    \/ \E k \in In("drop", Keys), v \in {Null, Num(1)} : SetCache(Caller, k, v, Undefined)
    \/ \E h \in In("drop", {HashKey}), f \in Keys, v \in {Null, Num(1)} :
           SetHashCache(Caller, h, f, v)
    \* the lists of keys handed to deleteCache: plain keys and the hash key
    \/ \E ks \in In("drop", UNION {[1..n -> Keys \cup {HashKey}] : n \in 0..MaxKeys}) :
           DeleteCache(Caller, ks)
    \/ \E h \in In("drop", {HashKey}), ids \in KeySeqs : DeleteHashCache(Caller, h, ids)
    \/ \E k \in In("erase", {<<"a">>, <<"b">>, <<"a", "b">>}) :
           SetCache(Caller, k, Num(1), Undefined)
    \/ \E h \in In("erase", {HashKey}) : SetHashCache(Caller, h, <<"a">>, Num(1))
    \/ \E pattern \in In("erase", {<<"*">>, <<"a", "*">>, <<"*", "b">>, <<"?">>, <<"b">>}),
          batch \in 0..MaxBatch :
           DeletePattern(Caller, pattern, batch)
    \/ \E visited \in SUBSET calls[Caller].unscanned, again \in SUBSET calls[Caller].scanned :
           /\ Cardinality(again) <= 1
           /\ DeletePatternPage(Caller, visited, again)
    \/ DeletePatternEnd(Caller)
    \/ DeletePatternLands(Caller)
    \/ DeletePatternReturn(Caller)
    \/ \E h \in In("drop", {HashKey}), f \in Keys :
           /\ calls[Caller].op = "deleteCache"
           /\ GetHashCache(Second, h, f)
    \/ Retire(Second)
    \/ NothingInFlight(Caller) /\ calls[Second].pc = "idle" /\ Retire(Caller)

SpecDel == InitDel /\ [][NextDel]_vars
-----------------------------------------------------------------------------
(* SpecTwin: the plain methods and the hash methods side by side.  The     *)
(* first caller works on the top-level key k, the second caller repeats    *)
(* each of its steps on the field k of the hash HashKey, with the same     *)
(* arguments and the same behaviour of the caller's function.  The scenes: *)
(*   counters  acquire next to hashAcquire                                 *)
(*   values    setCache, getCache, cache and manyCache (no ttl, empty      *)
(*             prefix) next to the hash methods of the same shape          *)


InitTwin ==
    /\ store = <<>>
    /\ calls = [c \in CallIds |-> Idle]
    /\ history = <<>>
    /\ scene \in {[kind |-> k, prefix |-> <<>>, denied |-> {}] : k \in {"counters", "values"}}


\* the first caller has made a call that the second is to repeat
ToFollow(op) == calls[First].op = op /\ calls[First].pc # "idle" /\ calls[Second].pc = "idle"
\* the function of the first caller has run, that of the second is running
FnToFollow ==
    /\ calls[Second].pc = "fn"
    /\ calls[First].pc # "fn"
    /\ calls[First].fnArgs # <<>>

\* both callers take the outcomes of their calls
TwinRetire ==
    /\ Finished(First)
    /\ Finished(Second)
    /\ calls' = [c \in CallIds |-> Idle]
    /\ history' = <<>>
    /\ UNCHANGED <<store, scene>>

NextTwin ==
    \/ \E k \in In("counters", Keys), n \in Amounts, float \in BOOLEAN :
           calls[Second].pc = "idle" /\ Acquire(First, k, n, float)
    \/ /\ ToFollow("acquire")
       /\ HashAcquire(Second, HashKey, calls[First].key, calls[First].amount,
                       calls[First].float)
    \/ \E v \in Values : calls[Second].pc # "idle" /\ AcquireBodyReturn(First, v)
    \/ /\ FnToFollow /\ calls[First].pc = "returned"
       /\ HashAcquireBodyReturn(Second, calls[First].fnValue)
    \/ calls[Second].pc # "idle" /\ AcquireBodyRaise(First)
    \/ FnToFollow /\ calls[First].error \in {"body", "resolver"} /\ HashAcquireBodyRaise(Second)
    \/ calls[Second].pc \notin {"idle", "fn"} /\ AcquireRelease(First)
    \/ calls[First].pc = "failed" /\ HashAcquireRelease(Second)
    \/ \E k \in In("values", Keys), v \in Values :
           calls[Second].pc = "idle" /\ SetCache(First, k, v, Undefined)
    \/ /\ ToFollow("setCache")
       /\ SetHashCache(Second, HashKey, calls[First].key, calls[First].value)
    \/ \E k \in In("values", Keys) : calls[Second].pc = "idle" /\ GetCache(First, k)
    \/ ToFollow("getCache") /\ GetHashCache(Second, HashKey, calls[First].key)
    \/ \E k \in In("values", Keys) : calls[Second].pc = "idle" /\ Cache(First, k, Undefined)
    \/ ToFollow("cache") /\ HashCache(Second, HashKey, calls[First].key)
    \/ \E v \in Values : calls[Second].pc # "idle" /\ CacheResolved(First, v)
    \/ /\ FnToFollow /\ calls[First].pc = "returned"
       /\ HashCacheResolved(Second, calls[First].fnValue)
    \/ \E ks \in In("values", KeySeqs) :
           calls[Second].pc = "idle" /\ ManyCache(First, ks, <<>>, Undefined)
    \/ ToFollow("manyCache") /\ HashManyCache(Second, HashKey, calls[First].keys)
    \/ \E uv \in MapResults \cup ArrayResults :
           calls[Second].pc # "idle" /\ ManyCacheResolved(First, uv)
    \/ /\ FnToFollow /\ calls[First].pc = "returned"
       /\ HashManyCacheResolved(Second, calls[First].fnValue)
    \/ calls[Second].pc # "idle" /\ ResolverRaise(First)
    \/ FnToFollow /\ calls[First].error \in {"body", "resolver"} /\ ResolverRaise(Second)
    \/ TwinRetire

SpecTwin == InitTwin /\ [][NextTwin]_vars
-----------------------------------------------------------------------------
(* SpecFault: one caller, one call at a time, on a store that fails.  In   *)
(* the scenes plain, hash, counter and erase the store comes to refuse one *)
(* of the commands of the scene, or to accept them all again, at any       *)
(* moment.  In the scene garbage another client of the store writes texts  *)
(* that the parser cannot read.                                            *)


InitFault ==
    /\ store = <<>>
    /\ calls = [c \in CallIds |-> Idle]
    /\ history = <<>>
    /\ scene \in {[kind |-> k, prefix |-> <<>>, denied |-> {}] :
                   k \in {"plain", "hash", "counter", "erase", "garbage"}}

\* the commands the methods used in a scene send
Deniable ==
    CASE scene.kind = "plain" -> {"get", "set", "setex", "mget", "mset", "expire", "del"}
      [] scene.kind = "hash" -> {"hget", "hset", "hmget", "hmset", "hdel"}
      [] scene.kind = "counter" ->
             {"incrby", "incrbyfloat", "hincrby", "hincrbyfloat"}
      [] scene.kind = "erase" -> {"scan", "del"}
      [] OTHER -> {}

\* the store begins to refuse the command `name`, or (names = {}) accepts
\* every command again
Deny(names) ==
    /\ names # scene.denied
    /\ scene' = [scene EXCEPT !.denied = names]
    /\ UNCHANGED <<store, calls, history>>

\* another client of the store sets a key to a text of its own
ForeignSet(k, text) ==
    /\ AllIdle
    /\ store' = Put(store, k, StringEntry(text, 0))
    /\ UNCHANGED <<calls, history, scene>>

\* another client of the store sets a field of a hash to a text of its own
ForeignHset(h, f, text) ==
    /\ AllIdle
    /\ IF Has(store, h) THEN store[Phys(h)].kind = "hash" ELSE TRUE
    /\ store' = Put(store, h, HashEntry(WithField(FieldsOf(store, h), f, text),
                                       IF Has(store, h) THEN store[Phys(h)].exp ELSE 0))
    /\ UNCHANGED <<calls, history, scene>>

\* what the caller passes in the scenes of SpecFault
FaultSeqs == {<<>>, <<<<"a">>>>, <<<<"a">>, <<"b">>>>}
\* texts that are not JSON
Garbage == {<<"x">>}

NextFault ==
    \/ \E names \in {{}} \cup {{n} : n \in Deniable} : Deny(names)
    \/ \E k \in In("plain", {<<"a">>}) \cup In("garbage", Keys), ttl \in TTLs :
           Cache(Caller, k, ttl)
    \/ \E v \in {Null} : CacheResolved(Caller, v)
    \/ \E k \in In("plain", {<<"a">>}) \cup In("garbage", Keys) : GetCache(Caller, k)
    \/ \E k \in In("plain", {<<"a">>}) \cup In("garbage", Keys), v \in {Null},
          ttl \in TTLs : SetCache(Caller, k, v, ttl)
    \/ \E ks \in In("plain", FaultSeqs) \cup In("garbage", FaultSeqs), ttl \in TTLs :
           ManyCache(Caller, ks, <<>>, ttl)
    \/ \E uv \in {Arr(<<Null>>), Arr(<<Null, Null>>)} : ManyCacheResolved(Caller, uv)
    \/ \E ks \in In("plain", FaultSeqs) \cup In("garbage", FaultSeqs) : GetManyCache(Caller, ks)
    \/ \E m \in In("plain", UNION {[S -> {Null}] : S \in SUBSET Keys}), ttl \in TTLs :
           SetManyCache(Caller, m, ttl)
    \/ \E ks \in In("plain", FaultSeqs) : DeleteCache(Caller, ks)
    \/ \E h \in In("hash", {HashKey}) \cup In("garbage", {HashKey}), f \in Keys :
           HashCache(Caller, h, f)
    \/ \E v \in {Null} : HashCacheResolved(Caller, v)
    \/ \E h \in In("hash", {HashKey}) \cup In("garbage", {HashKey}), f \in Keys :
           GetHashCache(Caller, h, f)
    \/ \E h \in In("hash", {HashKey}), f \in {<<"a">>}, v \in {Null} :
           SetHashCache(Caller, h, f, v)
    \/ \E h \in In("hash", {HashKey}) \cup In("garbage", {HashKey}), ks \in FaultSeqs :
           HashManyCache(Caller, h, ks)
    \/ \E uv \in {Arr(<<Null>>), Arr(<<Null, Null>>)} : HashManyCacheResolved(Caller, uv)
    \/ \E h \in In("hash", {HashKey}) \cup In("garbage", {HashKey}), ks \in FaultSeqs :
           GetHashManyCache(Caller, h, ks)
    \/ \E h \in In("hash", {HashKey}), m \in UNION {[S -> {Null}] : S \in SUBSET Keys} :
           SetHashManyCache(Caller, h, m)
    \/ \E h \in In("hash", {HashKey}), ks \in FaultSeqs : DeleteHashCache(Caller, h, ks)
    \/ ResolverRaise(Caller)
    \/ \E k \in In("counter", {<<"a">>}), n \in Amounts, float \in BOOLEAN :
           /\ CounterOf(store, k) >= 0 - MaxCounter
           /\ Acquire(Caller, k, n, float)
    \/ \E v \in {Null} : AcquireBodyReturn(Caller, v)
    \/ AcquireBodyRaise(Caller)
    \/ AcquireRelease(Caller)
    \/ \E h \in In("counter", {HashKey}), f \in {<<"a">>}, n \in Amounts, float \in BOOLEAN :
           /\ FieldCounterOf(store, h, f) >= 0 - MaxCounter
           /\ HashAcquire(Caller, h, f, n, float)
    \/ \E v \in {Null} : HashAcquireBodyReturn(Caller, v)
    \/ HashAcquireBodyRaise(Caller)
    \/ HashAcquireRelease(Caller)
    \/ \E k \in In("counter", {<<"a">>}) \cup In("erase", Keys) :
           /\ scene.denied = {}
           /\ SetCache(Caller, k, Null, Undefined)
    \/ \E pattern \in In("erase", {<<"*">>, <<"a">>}), batch \in 1..MaxBatch :
           DeletePattern(Caller, pattern, batch)
    \/ \E visited \in SUBSET calls[Caller].unscanned :
           DeletePatternPage(Caller, visited, {})
    \/ DeletePatternEnd(Caller)
    \/ DeletePatternLands(Caller)
    \/ DeletePatternReturn(Caller)
    \/ \E k \in In("garbage", Keys), text \in Garbage : ForeignSet(k, text)
    \/ \E h \in In("garbage", {HashKey}), f \in Keys, text \in Garbage :
           ForeignHset(h, f, text)
    \/ NothingInFlight(Caller) /\ Retire(Caller)

SpecFault == InitFault /\ [][NextFault]_vars
-----------------------------------------------------------------------------
(* SpecShare: NCalls independent callers, each making one call, on shared  *)
(* keys of a store that answers every command.  The calls interleave at    *)
(* their awaits, and the store applies one command at a time.  The scenes: *)
(*   counter  acquire next to acquire on one counter, which starts at 0 or *)
(*            at 1                                                         *)
(*   aside    cache next to setCache and deleteCache on one key            *)
(*   many     setManyCache with a ttl, step by step, next to getCache      *)

InitShare ==
    /\ calls = [c \in CallIds |-> Idle]
    /\ history = <<>>
    /\ scene \in {[kind |-> k, prefix |-> <<>>, denied |-> {}] : k \in {"counter", "aside", "many"}}
    /\ store \in {<<>>} \cup In("counter", {Put(<<>>, k, StringEntry(<<"1">>, 0)) : k \in ConcKeys})

NextShare ==
    \/ \E c \in CallIds, k \in In("counter", ConcKeys), n \in Amounts :
           InTurn(c) /\ Acquire(c, k, n, FALSE)
    \/ \E c \in CallIds, v \in {Null} : AcquireBodyReturn(c, v)
    \/ \E c \in CallIds : AcquireBodyRaise(c)
    \/ \E c \in CallIds : AcquireRelease(c)
    \/ \E c \in CallIds, k \in In("aside", ConcKeys) : InTurn(c) /\ Cache(c, k, Undefined)
    \/ \E c \in CallIds, v \in Values : CacheResolved(c, v)
    \/ \E c \in CallIds : ResolverRaise(c)
    \/ \E c \in CallIds, k \in In("aside", ConcKeys), w \in {Num(0), Num(1)} :
           InTurn(c) /\ SetCache(c, k, w, Undefined)
    \/ \E c \in CallIds, k \in In("aside", ConcKeys) : InTurn(c) /\ DeleteCache(c, <<k>>)
    \/ \E c \in CallIds, S \in In("many", SUBSET Keys), ttl \in TTLs \ {Undefined} :
           InTurn(c) /\ SetManyCacheMset(c, [k \in S |-> Num(1)], ttl)
    \/ \E c \in CallIds : SetManyCacheExpire(c)
    \/ \E c \in CallIds, k \in In("many", Keys) : InTurn(c) /\ GetCache(c, k)

SpecShare == InitShare /\ [][NextShare]_vars
-----------------------------------------------------------------------------
(* SpecLive: NCalls callers, each making one call of cache, manyCache,      *)
(* hashCache, hashManyCache, acquire or hashAcquire on the key "a" or on    *)
(* the field "a" of the hash HashKey, in any interleaving.  The store       *)
(* answers every command and the function handed to a call returns or       *)
(* raises, so a call that can take its next step does take it (weak         *)
(* fairness of each caller's steps).  Starting a call is left to the        *)
(* caller.                                                                  *)

InitLive ==
    /\ store = <<>>
    /\ calls = [c \in CallIds |-> Idle]
    /\ history = <<>>
    /\ scene = [kind |-> "live", prefix |-> <<>>, denied |-> {}]

\* the next step of the call of c: its function returns or raises and the
\* method goes on from there, or the release of a failed acquire is sent
Continue(c) ==
    \/ ResolverRaise(c)
    \/ AcquireBodyRaise(c)
    \/ HashAcquireBodyRaise(c)
    \/ AcquireBodyReturn(c, Null)
    \/ HashAcquireBodyReturn(c, Null)
    \/ AcquireRelease(c)
    \/ HashAcquireRelease(c)
    \/ \E v \in {Undefined, Num(1)} : CacheResolved(c, v)
    \/ \E v \in {Undefined, Num(1)} : HashCacheResolved(c, v)
    \/ \E uv \in {Arr(<<Num(1)>>), Obj(<<>>)} : ManyCacheResolved(c, uv)
    \/ \E uv \in {Arr(<<Num(1)>>), Obj(<<>>)} : HashManyCacheResolved(c, uv)

NextLive ==
    \/ \E c \in CallIds, k \in ConcKeys : InTurn(c) /\ Cache(c, k, Undefined)
    \/ \E c \in CallIds, k \in ConcKeys : InTurn(c) /\ HashCache(c, HashKey, k)
    \/ \E c \in CallIds, k \in ConcKeys : InTurn(c) /\ ManyCache(c, <<k>>, <<>>, Undefined)
    \/ \E c \in CallIds, k \in ConcKeys : InTurn(c) /\ HashManyCache(c, HashKey, <<k>>)
    \/ \E c \in CallIds, k \in ConcKeys : InTurn(c) /\ Acquire(c, k, 1, FALSE)
    \/ \E c \in CallIds, k \in ConcKeys : InTurn(c) /\ HashAcquire(c, HashKey, k, 1, FALSE)
    \/ \E c \in CallIds : Continue(c)

SpecLive == InitLive /\ [][NextLive]_vars /\ \A c \in CallIds : WF_vars(Continue(c))
-----------------------------------------------------------------------------
(* What the properties below speak of, stated on the store and on the      *)
(* record of a call rather than through the methods' own definitions.      *)

\* a top-level key that reads as a miss: absent, or holding the empty text
PlainAbsent(st, k) ==
    ~Has(st, k) \/ st[Phys(k)].kind # "string" \/ st[Phys(k)].text = <<>>

\* a hash field that reads as a miss: absent, or holding the empty text
FieldAbsent(st, h, f) ==
    f \notin DOMAIN FieldsOf(st, h) \/ FieldsOf(st, h)[f] = <<>>

\* the value whose encoding is the text t
StoredValue(t) ==
    CHOOSE v \in Values \cup {Num(n) : n \in 0..(MaxCounter + MaxAmount)} :
        JSONstringify(v) = Str(t)

IsBatch(call) == call.op \in {"manyCache", "hashManyCache"}

\* the id was a miss when the batch call read the store
BatchMiss(call, k) ==
    IF call.op = "manyCache" THEN PlainAbsent(call.snap, call.prefix \o k)
    ELSE FieldAbsent(call.snap, call.key, k)

\* the text the id's entry held when the batch call read the store
BatchText(call, k) ==
    IF call.op = "manyCache" THEN call.snap[Phys(call.prefix \o k)].text
    ELSE FieldsOf(call.snap, call.key)[k]

\* the id has an entry (of any content) in the store st
BatchEntry(st, call, k) ==
    IF call.op = "manyCache" THEN Has(st, call.prefix \o k)
    ELSE k \in DOMAIN FieldsOf(st, call.key)

\* a[j] of a JavaScript array
ArrAt(a, j) == IF j <= Len(a) THEN a[j] ELSE Undefined

\* the positions of id k in the list the resolver was invoked with
PositionsOf(call, k) ==
    {j \in 1..Len(call.fnArgs[1].arr) : call.fnArgs[1].arr[j] = k}

\* the values the resolver gave for id k
GivenFor(call, k) ==
    IF IsArray(call.fnValue)
    THEN {ArrAt(call.fnValue.arr, j) : j \in PositionsOf(call, k)}
    ELSE {IF k \in DOMAIN call.fnValue.obj THEN call.fnValue.obj[k] ELSE Undefined}

\* the resolver supplied no value for id k
NoValueFor(call, k) ==
    IF IsArray(call.fnValue)
    THEN \A j \in PositionsOf(call, k) : ArrAt(call.fnValue.arr, j) = Undefined
    ELSE k \notin DOMAIN call.fnValue.obj

IsRead(cmd) == cmd.name \in {"get", "mget", "hget", "hmget"}
OnlyReads(cmds) == \A j \in 1..Len(cmds) : IsRead(cmds[j])

-----------------------------------------------------------------------------
(* Batch cache-aside: manyCache and hashManyCache.                         *)

C2_ResolverGetsMisses ==
    \A c \in CallIds :
        LET call == calls[c]
        IN  (call.op = "manyCache" /\ call.fnArgs # <<>>) =>
                call.fnArgs =
                    <<Arr(SelectSeq(call.keys,
                                    LAMBDA k : PlainAbsent(call.snap, call.prefix \o k)))>>

\* C2 witness: the resolver is running for the one missed key of two, under a prefix
C2_Witness ==
    \E c \in CallIds :
        LET call == calls[c]
        IN  /\ call.op = "manyCache"
            /\ call.pc = "fn"
            /\ call.prefix # <<>>
            /\ Len(call.keys) = 2
            /\ ~BatchMiss(call, call.keys[1])
            /\ BatchMiss(call, call.keys[2])
            /\ call.fnArgs = <<Arr(<<call.keys[2]>>)>>

\* C3: an id that was a miss and for which the resolver supplied no value is
\* returned as absent, and no store entry is created for it.
C3_OmittedNotStored ==
    \A c \in CallIds :
        LET call == calls[c]
        IN  (IsBatch(call) /\ call.pc = "returned" /\ call.fnArgs # <<>>) =>
                \A i \in 1..Len(call.keys) :
                    (BatchMiss(call, call.keys[i]) /\ NoValueFor(call, call.keys[i])) =>
                        /\ call.result.arr[i] = Undefined
                        /\ BatchEntry(store, call, call.keys[i])
                               => BatchEntry(call.snap, call, call.keys[i])

\* C4: when every requested key is a hit, or none is requested, the batch
\* call returns the values read without invoking the resolver and without
\* a store write; the store is as it was.
C4_AllHitsNoResolverNoWrite ==
    \A c \in CallIds :
        LET call == calls[c]
        IN  (/\ IsBatch(call)
             /\ call.pc # "idle"
             /\ \A i \in 1..Len(call.keys) : ~BatchMiss(call, call.keys[i])) =>
                /\ call.pc = "returned"
                /\ call.fnArgs = <<>>
                /\ OnlyReads(call.cmds)
                /\ store = call.snap
                /\ call.result =
                       Arr([i \in 1..Len(call.keys) |->
                              StoredValue(BatchText(call, call.keys[i]))])

\* C4 witness: manyCache of two different keys, both hits, has returned
C4_Witness ==
    \E c \in CallIds :
        LET call == calls[c]
        IN  /\ call.op = "manyCache"
            /\ call.pc = "returned"
            /\ Len(call.keys) = 2
            /\ call.keys[1] # call.keys[2]
            /\ \A i \in 1..2 : ~BatchMiss(call, call.keys[i])
-----------------------------------------------------------------------------
(* Point cache-aside: cache, and the resolver failing in any cache-aside.  *)

\* the call is one of the four cache-aside methods
IsCacheAside(call) == call.op \in {"cache", "hashCache", "manyCache", "hashManyCache"}

\* C6: cache(K, resolver, ttl) on a hit returns the cached value without
\* invoking the resolver and sends nothing but the read: the entry of K, its
\* text and its expiry, is as it was, whether or not a ttl was passed.
C6_HitLeavesEntry ==
    \A c \in CallIds :
        LET call == calls[c]
        IN  (/\ call.op = "cache"
             /\ call.pc # "idle"
             /\ ~PlainAbsent(call.snap, call.key)) =>
                /\ call.pc = "returned"
                /\ call.result = StoredValue(call.snap[Phys(call.key)].text)
                /\ call.fnArgs = <<>>
                /\ OnlyReads(call.cmds)
                /\ Has(store, call.key)
                /\ store[Phys(call.key)] = call.snap[Phys(call.key)]
                /\ store = call.snap

\* C6 witness: cache with a ttl has returned a hit on an entry without expiry
C6_Witness ==
    \E c \in CallIds :
        LET call == calls[c]
        IN  /\ call.op = "cache"
            /\ call.pc = "returned"
            /\ call.ttl # Undefined
            /\ ~PlainAbsent(call.snap, call.key)
            /\ call.snap[Phys(call.key)].exp = 0
            /\ call.result = Null

\* C7: while the resolver of a cache-aside call runs nothing has been written,
\* and when it raises the call fails with the resolver's error, the store is
\* exactly as it was before the call and the call has sent only its read.
C7_ResolverRaiseWritesNothing ==
    \A c \in CallIds :
        LET call == calls[c]
        IN  /\ (IsCacheAside(call) /\ call.pc = "fn") =>
                   /\ store = call.snap
                   /\ OnlyReads(call.cmds)
                   /\ ENABLED ResolverRaise(c)
            /\ (IsCacheAside(call) /\ call.error = "resolver") =>
                   /\ call.pc = "failed"
                   /\ Len(call.fnArgs) = 1
                   /\ store = call.snap
                   /\ OnlyReads(call.cmds)

\* C7 witness: the resolver of manyCache raised for a miss next to a hit
C7_Witness ==
    \E c \in CallIds :
        LET call == calls[c]
        IN  /\ call.op = "manyCache"
            /\ call.pc = "failed"
            /\ call.error = "resolver"
            /\ Len(call.keys) = 2
            /\ ~BatchMiss(call, call.keys[1])
            /\ BatchMiss(call, call.keys[2])
-----------------------------------------------------------------------------
(* Counter reservation: acquire.                                           *)

\* the counter at the call's key when the call was made, 0 for an absent key
CounterBefore(call) ==
    IF Has(call.snap, call.key) THEN IntVal(call.snap[Phys(call.key)].text) ELSE 0

\* the expiry of the call's key when the call was made, none for an absent key
ExpiryBefore(call) ==
    IF Has(call.snap, call.key) THEN call.snap[Phys(call.key)].exp ELSE 0

\* the store of the call's snapshot with the counter at its key set to n
WithCounter(call, n) ==
    Put(call.snap, call.key, StringEntry(IntText(n), ExpiryBefore(call)))

IsIncrement(cmd, key, n) ==
    /\ cmd.name \in {"incrby", "incrbyfloat"}
    /\ cmd.args = <<Str(key), Num(n)>>

\* C9: acquire(K, amount, body) whose body completes normally has added amount
\* to the counter at K, from 0 when K was absent, has passed the counter after
\* the increment to body, once, returns what body returned, and has sent the
\* store that one increment and nothing else.
C9_AcquireKeepsIncrement ==
    \A c \in CallIds :
        LET call == calls[c]
        IN  (call.op = "acquire" /\ call.pc = "returned") =>
                /\ call.fnArgs = <<Num(CounterBefore(call) + call.amount)>>
                /\ call.result = call.fnValue
                /\ Len(call.cmds) = 1
                /\ IsIncrement(call.cmds[1], call.key, call.amount)
                /\ store = WithCounter(call, CounterBefore(call) + call.amount)

\* C9 witness: acquire of 1 on a counter at 2 has returned and the counter is at 3
C9_Witness ==
    \E c \in CallIds :
        LET call == calls[c]
        IN  /\ call.op = "acquire"
            /\ call.pc = "returned"
            /\ call.amount = 1
            /\ Has(call.snap, call.key)
            /\ call.snap[Phys(call.key)].text = <<"2">>
            /\ store[Phys(call.key)].text = <<"3">>
            /\ call.fnArgs = <<Num(3)>>

\* C10: acquire(K, amount, body) whose body raises fails with body's error
\* after an increment by amount and a decrement by amount: the counter at K is
\* back at its value before the call, and is 0 with the key present when K did
\* not exist before.
C10_AcquireReleasesOnRaise ==
    \A c \in CallIds :
        LET call == calls[c]
        IN  /\ (call.op = "acquire" /\ call.pc = "fn") => ENABLED AcquireBodyRaise(c)
            /\ (call.op = "acquire" /\ call.pc = "catch" /\ call.error = "body") =>
                   ENABLED AcquireRelease(c)
            /\ (call.op = "acquire" /\ call.pc = "failed" /\ call.fnArgs # <<>>) =>
                   /\ call.error = "body"
                   /\ Len(call.cmds) = 2
                   /\ IsIncrement(call.cmds[1], call.key, call.amount)
                   /\ IsIncrement(call.cmds[2], call.key, 0 - call.amount)
                   /\ Has(store, call.key)
                   /\ store[Phys(call.key)].text = IntText(CounterBefore(call))
                   /\ store = WithCounter(call, CounterBefore(call))

\* C10 witness: acquire of 2 on an absent key failed with body's error and
\* left the key present at 0
C10_Witness ==
    \E c \in CallIds :
        LET call == calls[c]
        IN  /\ call.op = "acquire"
            /\ call.pc = "failed"
            /\ call.error = "body"
            /\ call.amount = 2
            /\ ~Has(call.snap, call.key)
            /\ Has(store, call.key)
            /\ store[Phys(call.key)].text = <<"0">>
-----------------------------------------------------------------------------
(* cache called by several callers at once: the order of the commands at   *)
(* the store, as `history` has it.                                         *)

IsCacheCall(call) == call.op = "cache" /\ call.pc # "idle"

\* the event is a write of the key
WritesKey(ev, key) ==
    /\ ev.cmd.name \in {"set", "setex"}
    /\ ev.cmd.args[1] = Str(key)

\* where in the history the call's read and the call's write are
ReadAt(c) ==
    CHOOSE i \in 1..Len(history) : history[i].by = c /\ history[i].cmd.name = "get"
HasWritten(c) ==
    \E i \in 1..Len(history) : history[i].by = c /\ WritesKey(history[i], calls[c].key)
WriteAt(c) ==
    CHOOSE i \in 1..Len(history) : history[i].by = c /\ WritesKey(history[i], calls[c].key)

\* the seconds that passed after event i and before position j
SecondsBetween(i, j) ==
    Cardinality({x \in (i + 1)..(j - 1) : history[x].cmd.name = "second"})

\* the expiry the write at i gave its entry: none for set, the ttl for setex
GivenTtl(i) ==
    IF history[i].cmd.name = "setex" THEN history[i].cmd.args[2].num ELSE 0

\* what the write at i put at its key is still there just before position j:
\* not expired, and not written over
Stands(i, key, j) ==
    /\ GivenTtl(i) # 0 => SecondsBetween(i, j) < GivenTtl(i)
    /\ \A x \in (i + 1)..(j - 1) : ~WritesKey(history[x], key)

\* the end of the history, as a position
Now == Len(history) + 1

\* the key has an entry that holds the text the value v is written as
HoldsTextOf(st, key, v) ==
    /\ Has(st, key)
    /\ st[Phys(key)].kind = "string"
    /\ st[Phys(key)].text = toArg(JSONstringify(v))

C8_BothResolveLastSetWins ==
    /\ \A c \in CallIds :
           /\ calls[c].pc = "idle" =>
                  \A k \in ConcKeys : ENABLED Cache(c, k, Undefined)
           /\ (calls[c].op = "cache" /\ calls[c].pc = "fn") =>
                  \A v \in Values : ENABLED CacheResolved(c, v)
    /\ \A c, d \in CallIds :
           (/\ c # d
            /\ IsCacheCall(calls[c])
            /\ IsCacheCall(calls[d])
            /\ calls[c].key = calls[d].key
            /\ PlainAbsent(calls[c].snap, calls[c].key)
            /\ PlainAbsent(calls[d].snap, calls[d].key)) =>
               /\ Len(calls[c].fnArgs) = 1
               /\ Len(calls[d].fnArgs) = 1
               /\ calls[c].pc = "returned" => HasWritten(c)
               /\ (/\ calls[c].pc = "returned"
                   /\ calls[d].pc = "returned"
                   /\ WriteAt(d) < WriteAt(c)
                   /\ Stands(WriteAt(c), calls[c].key, Now)) =>
                      /\ Has(store, calls[c].key)
                      /\ store[Phys(calls[c].key)].text =
                             toArg(JSONstringify(calls[c].fnValue))
                      /\ store[Phys(calls[c].key)].exp =
                             IF GivenTtl(WriteAt(c)) = 0 THEN 0
                             ELSE GivenTtl(WriteAt(c)) - SecondsBetween(WriteAt(c), Now)

\* C8 witness: two calls read the key while it was absent, the first set wrote
\* 1 and the second wrote null, and the entry holds null
C8_Witness ==
    \E c, d \in CallIds :
        /\ c # d
        /\ calls[c].op = "cache" /\ calls[c].pc = "returned"
        /\ calls[d].op = "cache" /\ calls[d].pc = "returned"
        /\ calls[c].key = calls[d].key
        /\ ~Has(calls[c].snap, calls[c].key)
        /\ ~Has(calls[d].snap, calls[d].key)
        /\ calls[d].fnValue = Num(1)
        /\ calls[c].fnValue = Null
        /\ HasWritten(c) /\ HasWritten(d)
        /\ WriteAt(d) < WriteAt(c)
        /\ Has(store, calls[c].key)
        /\ store[Phys(calls[c].key)].text = <<"n", "u", "l", "l">>
-----------------------------------------------------------------------------
(* acquire next to other writers of its key.                               *)

\* C11: when the body of acquire raises and the decrement that gives the
\* amount back fails, the failure of the decrement is swallowed: an acquire
\* whose body was invoked and that failed, failed with the error of its body.
C11_ReleaseFailureSwallowed ==
    \A c \in CallIds :
        LET call == calls[c]
        IN  (call.op = "acquire" /\ call.pc = "failed" /\ call.fnArgs # <<>>) =>
                call.error = "body"
-----------------------------------------------------------------------------
(* Two calls in a row (SpecSeq).                                           *)

\* no second has passed since the first call
NoTimePassed == \A i \in 1..Len(history) : history[i].cmd.name # "second"

\* the resolver gave a value, other than undefined, for id k
GaveValue(call, k) == \E v \in GivenFor(call, k) : v # Undefined

\* the ids the resolver of the call was invoked with
IdsPassed(call) == IF call.fnArgs = <<>> THEN {} ELSE Range(call.fnArgs[1].arr)

\* C12: after manyCache(keys, resolver, prefix) every miss key the resolver
\* gave a value for is stored at prefix+key with that value, and a second
\* manyCache with the same keys and prefix passes to its resolver only keys
\* the first resolver gave no value for.
C12_ResolvedAreStored ==
    LET one == calls[First]
        two == calls[Second]
    IN  (one.op = "manyCache" /\ one.pc = "returned" /\ NoTimePassed) =>
            /\ \A i \in 1..Len(one.keys) :
                   LET k == one.keys[i]
                   IN  (one.fnArgs # <<>> /\ BatchMiss(one, k) /\ GaveValue(one, k)) =>
                           /\ ~PlainAbsent(store, one.prefix \o k)
                           /\ StoredValue(store[Phys(one.prefix \o k)].text)
                                  \in GivenFor(one, k)
            /\ (two.op = "manyCache" /\ two.keys = one.keys /\ two.prefix = one.prefix) =>
                   \A k \in IdsPassed(two) :
                       /\ one.fnArgs # <<>>
                       /\ BatchMiss(one, k)
                       /\ ~GaveValue(one, k)
-----------------------------------------------------------------------------
(* The array form of a batch resolver's result.                            *)

\* the input positions of the call that were misses, in input order
MissIndex(call) ==
    SelectSeq([i \in 1..Len(call.keys) |-> i], LAMBDA i : BatchMiss(call, call.keys[i]))

\* the entry of id k holds the text the value v is written as
BatchHoldsTextOf(st, call, k, v) ==
    /\ BatchEntry(st, call, k)
    /\ IF call.op = "manyCache" THEN st[Phys(call.prefix \o k)].text = toArg(JSONstringify(v))
       ELSE FieldsOf(st, call.key)[k] = toArg(JSONstringify(v))

\* C13: when the resolver of manyCache or hashManyCache returns an array, the
\* value returned for the j-th key of the miss list, and stored under it, is
\* the j-th element of the array, also when the list repeats a key.
C13_ArrayFormByPosition ==
    \A c \in CallIds :
        LET call == calls[c]
        IN  (IsBatch(call) /\ call.pc = "returned" /\ call.fnArgs # <<>>
             /\ IsArray(call.fnValue)) =>
                \A j \in 1..Len(call.fnArgs[1].arr) :
                    /\ call.result.arr[MissIndex(call)[j]] = ArrAt(call.fnValue.arr, j)
                    /\ BatchHoldsTextOf(store, call, call.fnArgs[1].arr[j],
                                        ArrAt(call.fnValue.arr, j))
-----------------------------------------------------------------------------
(* cache and the values undefined and null.                                *)

\* C14: when the callback of cache returns undefined the value is not cached:
\* after the call the store holds no entry for the key.
C14_UndefinedNotCached ==
    \A c \in CallIds :
        LET call == calls[c]
        IN  (/\ call.op = "cache"
             /\ call.pc = "returned"
             /\ call.fnArgs # <<>>
             /\ call.fnValue = Undefined
             /\ ~Has(call.snap, call.key)) =>
                ~Has(store, call.key)

\* the seconds that have passed since the first call
SecondsPassed == Cardinality({i \in 1..Len(history) : history[i].cmd.name = "second"})

\* what a call wrote with this ttl argument is not yet expired
WithinTtl(ttl) == ttl = Undefined \/ SecondsPassed < ttl.num

\* C15: a null returned by the resolver of cache is stored, and until the
\* entry expires a later cache on the same key returns null and does not
\* invoke its resolver.
C15_NullIsCached ==
    LET one == calls[First]
        two == calls[Second]
    IN  (/\ one.op = "cache"
         /\ one.pc = "returned"
         /\ one.fnArgs # <<>>
         /\ one.fnValue = Null
         /\ WithinTtl(one.ttl)) =>
            /\ one.result = Null
            /\ two.pc = "idle" =>
                   /\ Has(store, one.key)
                   /\ store[Phys(one.key)].text = <<"n", "u", "l", "l">>
            /\ (two.op = "cache" /\ two.key = one.key) =>
                   /\ two.pc = "returned"
                   /\ two.result = Null
                   /\ two.fnArgs = <<>>

\* C15 witness: the second cache returned the null the first one had stored
\* under a ttl
C15_Witness ==
    /\ calls[First].op = "cache"
    /\ calls[First].fnArgs # <<>>
    /\ calls[First].fnValue = Null
    /\ calls[First].ttl # Undefined
    /\ calls[Second].op = "cache"
    /\ calls[Second].pc = "returned"
    /\ calls[Second].result = Null
    /\ calls[Second].fnArgs = <<>>
-----------------------------------------------------------------------------
(* setCache and getCache.                                                  *)

\* C16: for every value V the codec takes, null, 0 and the empty string
\* included, setCache(K, V) followed by getCache(K), with no write and no
\* expiry of K in between, returns V.
C16_SetGetRoundTrip ==
    LET one == calls[First]
        two == calls[Second]
    IN  (/\ one.op = "setCache"
         /\ one.value # Undefined
         /\ WithinTtl(one.ttl)
         /\ two.op = "getCache"
         /\ two.key = one.key) =>
            /\ one.pc = "returned"
            /\ two.pc = "returned"
            /\ two.result = one.value

\* C16 witness: the empty string was set and read back
C16_Witness ==
    /\ calls[First].op = "setCache"
    /\ calls[First].value = Str(<<>>)
    /\ calls[Second].op = "getCache"
    /\ calls[Second].pc = "returned"
    /\ calls[Second].result = Str(<<>>)
-----------------------------------------------------------------------------
(* Entries whose raw text is empty.                                        *)

\* the top-level key has an entry whose text is empty
RawEmpty(st, k) ==
    Has(st, k) /\ st[Phys(k)].kind = "string" /\ st[Phys(k)].text = <<>>

\* the field of the hash has an entry whose text is empty
RawEmptyField(st, h, f) ==
    f \in DOMAIN FieldsOf(st, h) /\ FieldsOf(st, h)[f] = <<>>

\* C17: an entry, key or hash field, whose raw text is the empty string is
\* reported as absent by getCache, getManyCache, getHashCache and
\* getHashManyCache, with no failure of the parser, and is a miss for cache,
\* manyCache, hashCache and hashManyCache: their resolver is invoked for it.
C17_EmptyTextIsAbsent ==
    \A c \in CallIds :
        LET call == calls[c]
        IN  /\ (call.op = "getCache" /\ RawEmpty(call.snap, call.key)) =>
                   call.pc = "returned" /\ call.result = NOT_FOUND_VALUE
            /\ (call.op = "getHashCache" /\ RawEmptyField(call.snap, call.key, call.id)) =>
                   call.pc = "returned" /\ call.result = NOT_FOUND_VALUE
            /\ call.op = "getManyCache" =>
                   \A i \in 1..Len(call.keys) :
                       RawEmpty(call.snap, call.keys[i]) =>
                           /\ call.pc = "returned"
                           /\ call.result.arr[i] = NOT_FOUND_VALUE
            /\ call.op = "getHashManyCache" =>
                   \A i \in 1..Len(call.keys) :
                       RawEmptyField(call.snap, call.key, call.keys[i]) =>
                           /\ call.pc = "returned"
                           /\ call.result.arr[i] = NOT_FOUND_VALUE
            /\ (call.op = "cache" /\ RawEmpty(call.snap, call.key)) =>
                   call.fnArgs = <<Undefined>>
            /\ (call.op = "hashCache" /\ RawEmptyField(call.snap, call.key, call.id)) =>
                   call.fnArgs = <<Undefined>>
            /\ call.op = "manyCache" =>
                   \A i \in 1..Len(call.keys) :
                       RawEmpty(call.snap, call.prefix \o call.keys[i]) =>
                           call.keys[i] \in IdsPassed(call)
            /\ call.op = "hashManyCache" =>
                   \A i \in 1..Len(call.keys) :
                       RawEmptyField(call.snap, call.key, call.keys[i]) =>
                           call.keys[i] \in IdsPassed(call)

\* C17 witness: getManyCache returned absent for a key whose text is empty,
\* next to the value of a key that holds one
C17_Witness ==
    \E c \in CallIds :
        LET call == calls[c]
        IN  /\ call.op = "getManyCache"
            /\ call.pc = "returned"
            /\ Len(call.keys) = 2
            /\ RawEmpty(call.snap, call.keys[1])
            /\ call.result.arr[1] = NOT_FOUND_VALUE
            /\ call.result.arr[2] = Null

\* C18: after setCache(K, V, ttl) the entry at K expires in ttl seconds:
\* getCache(K) returns V before that and absent from then on.  After
\* setCache(K, V) without ttl the entry at K has no expiry, whether or not K
\* carried one before the call.
C18_TtlOfSetCache ==
    LET one == calls[First]
        two == calls[Second]
    IN  /\ (one.op = "setCache" /\ one.ttl # Undefined) =>
               /\ one.pc = "returned"
               /\ two.pc = "idle" =>
                      IF SecondsPassed < one.ttl.num
                      THEN /\ Has(store, one.key)
                           /\ store[Phys(one.key)].exp = one.ttl.num - SecondsPassed
                      ELSE ~Has(store, one.key)
               /\ (two.op = "getCache" /\ two.key = one.key) =>
                      /\ two.pc = "returned"
                      /\ two.result = IF SecondsPassed < one.ttl.num THEN one.value
                                      ELSE NOT_FOUND_VALUE
        /\ (one.op = "setCache" /\ one.ttl = Undefined /\ two.pc = "idle") =>
               /\ one.pc = "returned"
               /\ SecondsPassed = 0
               /\ Has(store, one.key)
               /\ store[Phys(one.key)].exp = 0
        /\ (two.op = "setCache" /\ two.ttl = Undefined) =>
               /\ two.pc = "returned"
               /\ Has(store, two.key)
               /\ store[Phys(two.key)].exp = 0

\* C18 witness: a value set with a ttl was read as absent once the ttl had passed
C18_Witness ==
    /\ calls[First].op = "setCache"
    /\ calls[First].value = Num(1)
    /\ calls[First].ttl # Undefined
    /\ SecondsPassed = calls[First].ttl.num
    /\ calls[Second].op = "getCache"
    /\ calls[Second].pc = "returned"
    /\ calls[Second].result = NOT_FOUND_VALUE
-----------------------------------------------------------------------------
(* manyCache and setManyCache with a ttl.                                  *)

\* the ids the resolver's result has a value for, once it is a map
ResolvedIds(call) ==
    IF IsArray(call.fnValue) THEN Range(call.fnArgs[1].arr) ELSE DOMAIN call.fnValue.obj

\* the expiry a ttl argument gives: none when it is undefined
ExpiryOf(ttl) == IF ttl = Undefined THEN 0 ELSE ttl.num

\* the requested ids of the call that were hits
HitIds(call) == {k \in Range(call.keys) : ~BatchMiss(call, k)}

\* C19 as stated: manyCache(keys, resolver, prefix, ttl) gives the expiry ttl
\* to the entries of the misses it stores, and every entry that was a hit
\* keeps its value and its expiry.
C19_HitsKeepExpiry ==
    \A c \in CallIds :
        LET call == calls[c]
        IN  (call.op = "manyCache" /\ call.pc = "returned" /\ call.fnArgs # <<>>) =>
                /\ \A k \in Range(call.fnArgs[1].arr) \cap ResolvedIds(call) :
                       /\ Has(store, call.prefix \o k)
                       /\ store[Phys(call.prefix \o k)].exp = ExpiryOf(call.ttl)
                /\ \A k \in HitIds(call) :
                       /\ Has(store, call.prefix \o k)
                       /\ store[Phys(call.prefix \o k)] = call.snap[Phys(call.prefix \o k)]

\* C19 amended: the same, for every hit whose id is not a key of the map the
\* resolver returned.
C19_HitsKeepExpiryUnlessResolved ==
    \A c \in CallIds :
        LET call == calls[c]
        IN  (call.op = "manyCache" /\ call.pc = "returned" /\ call.fnArgs # <<>>) =>
                /\ \A k \in Range(call.fnArgs[1].arr) \cap ResolvedIds(call) :
                       /\ Has(store, call.prefix \o k)
                       /\ store[Phys(call.prefix \o k)].exp = ExpiryOf(call.ttl)
                /\ \A k \in HitIds(call) \ ResolvedIds(call) :
                       /\ Has(store, call.prefix \o k)
                       /\ store[Phys(call.prefix \o k)] = call.snap[Phys(call.prefix \o k)]

\* C19 witness: manyCache with a ttl stored a miss with that expiry next to a
\* hit that had no expiry and still has none
C19_Witness ==
    \E c \in CallIds :
        LET call == calls[c]
        IN  /\ call.op = "manyCache"
            /\ call.pc = "returned"
            /\ call.ttl # Undefined
            /\ Len(call.keys) = 2
            /\ ~BatchMiss(call, call.keys[1])
            /\ BatchMiss(call, call.keys[2])
            /\ call.snap[Phys(call.prefix \o call.keys[1])].exp = 0
            /\ store[Phys(call.prefix \o call.keys[1])].exp = 0
            /\ Has(store, call.prefix \o call.keys[2])
            /\ store[Phys(call.prefix \o call.keys[2])].exp = call.ttl.num

\* the call is the last thing that happened
JustDone(c) == c = Second \/ (calls[Second].pc = "idle" /\ SecondsPassed = 0)

\* C20: after setManyCache(map, ttl) every key of map holds the encoding of
\* its value, whatever it held before; with a ttl every key of map carries
\* the expiry ttl, without one none of them carries an expiry.  The keys
\* outside map are as they were.
C20_SetManyStoresAll ==
    \A c \in {First, Second} :
        LET call == calls[c]
        IN  call.op = "setManyCache" =>
                /\ call.pc = "returned"
                /\ JustDone(c) =>
                       /\ \A k \in DOMAIN call.value.obj :
                              /\ Has(store, k)
                              /\ store[Phys(k)] =
                                     StringEntry(toArg(JSONstringify(call.value.obj[k])),
                                                 ExpiryOf(call.ttl))
                       /\ \A x \in DOMAIN store \cup DOMAIN call.snap :
                              x \notin {Phys(k) : k \in DOMAIN call.value.obj} =>
                                  /\ x \in DOMAIN store
                                  /\ x \in DOMAIN call.snap
                                  /\ store[x] = call.snap[x]

\* C20 witness: setManyCache with a ttl wrote over two keys that had no expiry
C20_Witness ==
    LET call == calls[Second]
    IN  /\ call.op = "setManyCache"
        /\ call.pc = "returned"
        /\ call.ttl # Undefined
        /\ Cardinality(DOMAIN call.value.obj) = 2
        /\ \A k \in DOMAIN call.value.obj :
               /\ Has(call.snap, k)
               /\ call.snap[Phys(k)].exp = 0
               /\ call.snap[Phys(k)].text # store[Phys(k)].text
               /\ store[Phys(k)].exp = call.ttl.num

-----------------------------------------------------------------------------
(* Batch reads and deletes.                                                *)

\* what a read of the text t gives: the decoded value, nothing for no text
ReadsAs(t) == IF t = <<>> THEN NOT_FOUND_VALUE ELSE JSONparse(t)

\* C21: getManyCache(keys) returns one element per input key, in input order:
\* the decoded value of a key that is present, the absent value for a key
\* that is missing (or holds the empty text); for an empty list it returns
\* the empty list without a store command, and so does getHashManyCache for
\* an empty field list.  The store is left as it was.
C21_GetManyAligned ==
    \A c \in CallIds :
        LET call == calls[c]
        IN  /\ call.op = "getManyCache" =>
                /\ call.pc = "returned"
                /\ Len(call.result.arr) = Len(call.keys)
                /\ \A i \in 1..Len(call.keys) :
                       call.result.arr[i] =
                           IF Has(call.snap, call.keys[i])
                           THEN ReadsAs(call.snap[Phys(call.keys[i])].text)
                           ELSE NOT_FOUND_VALUE
                /\ IF call.keys = <<>> THEN call.cmds = <<>>
                   ELSE Len(call.cmds) = 1 /\ call.cmds[1].name = "mget"
                /\ JustDone(c) => store = call.snap
            /\ call.op = "getHashManyCache" =>
                /\ call.pc = "returned"
                /\ Len(call.result.arr) = Len(call.keys)
                /\ \A i \in 1..Len(call.keys) :
                       call.result.arr[i] =
                           IF call.keys[i] \in DOMAIN FieldsOf(call.snap, call.key)
                           THEN ReadsAs(FieldsOf(call.snap, call.key)[call.keys[i]])
                           ELSE NOT_FOUND_VALUE
                /\ IF call.keys = <<>> THEN call.cmds = <<>>
                   ELSE Len(call.cmds) = 1 /\ call.cmds[1].name = "hmget"
                /\ JustDone(c) => store = call.snap

\* C21 witness: getManyCache of a missing key and then a present one gave
\* the absent value and then the stored value
C21_Witness ==
    LET call == calls[Second]
    IN  /\ call.op = "getManyCache"
        /\ call.pc = "returned"
        /\ Len(call.keys) = 2
        /\ ~Has(call.snap, call.keys[1])
        /\ Has(call.snap, call.keys[2])
        /\ call.result = Arr(<<NOT_FOUND_VALUE, Null>>)

\* the keys of a list that the store st holds
Existing(st, ks) == {k \in Range(ks) : Has(st, k)}

\* every physical key outside ks is in st2 exactly as it is in st1
SameOutside(st1, st2, ks) ==
    \A x \in (DOMAIN st1 \cup DOMAIN st2) \ {Phys(k) : k \in ks} :
        x \in DOMAIN st1 /\ x \in DOMAIN st2 /\ st1[x] = st2[x]

\* C22: deleteCache(k1..kn), n >= 1, returns the number of the given keys
\* that the store held (each key counted once, between 0 and n); afterwards
\* none of the given keys is in the store, and every other key is as it was.
C22_DeleteCacheCounts ==
    LET call == calls[Caller]
    IN  (call.op = "deleteCache" /\ call.keys # <<>>) =>
            /\ call.pc = "returned"
            /\ call.result = Num(Cardinality(Existing(call.snap, call.keys)))
            /\ call.result.num \in 0..Len(call.keys)
            /\ \A k \in Range(call.keys) : ~Has(store, k)
            /\ SameOutside(call.snap, store, Range(call.keys))

\* C22 witness: of two keys given one existed; a third key stays
C22_Witness ==
    LET call == calls[Caller]
    IN  /\ call.op = "deleteCache"
        /\ call.pc = "returned"
        /\ Len(call.keys) = 2
        /\ call.result = Num(1)
        /\ Has(call.snap, call.keys[1])
        /\ ~Has(call.snap, call.keys[2])
        /\ store # <<>>

\* C23: deleteCache of a key that holds a hash removes the whole hash: the
\* key is gone, getHashCache gives the absent value for every field of it,
\* and the key counts once in the number returned.
C23_DeleteCacheRemovesHash ==
    LET call == calls[Caller]
        read == calls[Second]
    IN  (/\ call.op = "deleteCache"
         /\ \E h \in Range(call.keys) :
                Has(call.snap, h) /\ call.snap[Phys(h)].kind = "hash") =>
            /\ call.pc = "returned"
            /\ \A h \in Range(call.keys) :
                   (Has(call.snap, h) /\ call.snap[Phys(h)].kind = "hash") =>
                       /\ ~Has(store, h)
                       /\ call.result.num =
                              1 + Cardinality(Existing(call.snap, call.keys) \ {h})
                       /\ (read.op = "getHashCache" /\ read.key = h) =>
                              /\ read.pc = "returned"
                              /\ read.result = NOT_FOUND_VALUE

\* C23 witness: a hash with two fields was deleted together with a string,
\* and a field of it was then read as absent
C23_Witness ==
    LET call == calls[Caller]
        read == calls[Second]
    IN  /\ call.op = "deleteCache"
        /\ Len(call.keys) = 2
        /\ Has(call.snap, HashKey)
        /\ Cardinality(DOMAIN FieldsOf(call.snap, HashKey)) = 2
        /\ call.result = Num(2)
        /\ read.op = "getHashCache"
        /\ read.key = HashKey
        /\ read.pc = "returned"
        /\ read.result = NOT_FOUND_VALUE

\* C24: deleteHashCache(H, f1..fn), n >= 1, on a hash H returns the number of
\* the listed fields that H had (each counted once); afterwards H has none of
\* the listed fields, every other field of H is as it was, and so is every
\* other key.
C24_DeleteHashCacheFrame ==
    LET call == calls[Caller]
        before == FieldsOf(call.snap, call.key)
        after == FieldsOf(store, call.key)
    IN  (call.op = "deleteHashCache" /\ call.keys # <<>>) =>
            /\ call.pc = "returned"
            /\ call.result = Num(Cardinality(DOMAIN before \cap Range(call.keys)))
            /\ DOMAIN after = DOMAIN before \ Range(call.keys)
            /\ \A f \in DOMAIN after : after[f] = before[f]
            /\ SameOutside(call.snap, store, {call.key})

\* C24 witness: of the two fields of the hash one was deleted, next to a
\* field the hash did not have; the other field and a plain key stay
C24_Witness ==
    LET call == calls[Caller]
    IN  /\ call.op = "deleteHashCache"
        /\ call.pc = "returned"
        /\ Cardinality(DOMAIN FieldsOf(call.snap, call.key)) = 2
        /\ Cardinality(DOMAIN FieldsOf(store, call.key)) = 1
        /\ call.result = Num(1)
        /\ Cardinality(DOMAIN store) = 2

-----------------------------------------------------------------------------
(* deletePattern.                                                          *)

\* the physical key is under the configured prefix and its name without the
\* prefix matches the glob
Matches(x, glob) ==
    /\ Len(x) >= Len(keyPrefix)
    /\ SubSeq(x, 1, Len(keyPrefix)) = keyPrefix
    /\ GlobMatch(glob, SubSeq(x, Len(keyPrefix) + 1, Len(x)))

\* C25: when deletePattern(glob, batch) has returned, and nobody else wrote
\* meanwhile, no key under the prefix whose name matches glob is left, and
\* every key that does not match is as it was at the call; whatever the
\* pages of the scan, and whether or not the last batch was full.
C25_DeletePatternErases ==
    LET call == calls[Caller]
    IN  (call.op = "deletePattern" /\ call.pc = "returned") =>
            /\ \A x \in DOMAIN store : ~Matches(x, call.pattern)
            /\ \A x \in DOMAIN call.snap :
                   ~Matches(x, call.pattern) => x \in DOMAIN store /\ store[x] = call.snap[x]
            /\ DOMAIN store \subseteq DOMAIN call.snap

\* C25 witness: a scan of several pages, whose last batch was neither empty
\* nor full, deleted two keys and left one
C25_Witness ==
    LET call == calls[Caller]
    IN  /\ call.op = "deletePattern"
        /\ call.pc = "returned"
        /\ Len(call.pages) >= 2
        /\ Len(call.jobs) >= 2
        /\ call.jobs[Len(call.jobs)].keys # <<>>
        /\ Len(call.jobs[Len(call.jobs)].keys) < call.batch
        /\ Cardinality(DOMAIN call.snap \ DOMAIN store) >= 2
        /\ store # <<>>

-----------------------------------------------------------------------------
(* The hash methods against the plain methods.                             *)

\* the text under the top-level key k, and under the field k of the hash;
\* <<"none">> when there is no such entry
PlainText(st, k) ==
    IF Has(st, k) /\ st[Phys(k)].kind = "string" THEN st[Phys(k)].text ELSE <<"none">>
FieldText(st, k) ==
    IF k \in DOMAIN FieldsOf(st, HashKey) THEN FieldsOf(st, HashKey)[k] ELSE <<"none">>

\* the hash holds under its fields what the top-level keys hold
SameContents(st) == \A k \in Keys : PlainText(st, k) = FieldText(st, k)

\* the call of the second caller went the way the call of the first did: the
\* same arguments to the caller's function, and the same error when it failed
SameCourse(one, two) ==
    /\ two.fnArgs # <<>> => one.fnArgs = two.fnArgs
    /\ two.pc = "catch" => one.pc \in {"catch", "failed"}
    /\ two.pc = "returned" => one.pc = "returned"
    /\ two.pc = "failed" => one.pc = "failed" /\ one.error = two.error

\* C26: hashAcquire(H, f, amount, body) goes as acquire(K, amount, body) does:
\* body gets the same value, the call gives the same result or the same
\* error, and the field f ends at the value the key K ends at, when body
\* succeeded and when it failed.
C26_HashAcquireAsAcquire ==
    LET one == calls[First]
        two == calls[Second]
    IN  two.op = "hashAcquire" =>
            /\ one.op = "acquire"
            /\ SameCourse(one, two)
            /\ two.pc = "returned" => one.result = two.result
            /\ two.pc = one.pc => SameContents(store)

\* C26 witness: on counters that stood at a value, both bodies were given the
\* same new value and failed, and both counters are back at the old value
C26_Witness ==
    LET one == calls[First]
        two == calls[Second]
    IN  /\ two.op = "hashAcquire"
        /\ two.pc = "failed"
        /\ two.error = "body"
        /\ one.pc = "failed"
        /\ PlainText(one.snap, one.key) \notin {<<"none">>, <<"0">>}
        /\ two.fnArgs # <<Num(two.amount)>>
        /\ FieldText(store, two.id) = PlainText(one.snap, one.key)

\* the hash method that stands for a plain method
HashOf(op) ==
    CASE op = "setCache" -> "setHashCache"
      [] op = "getCache" -> "getHashCache"
      [] op = "cache" -> "hashCache"
      [] op = "manyCache" -> "hashManyCache"
      [] OTHER -> "none"

IsValueTwin(call) ==
    call.op \in {"setHashCache", "getHashCache", "hashCache", "hashManyCache"}

\* C27, as claimed: getHashCache, setHashCache, hashCache and hashManyCache on
\* the fields of one hash return what getCache, setCache, cache and manyCache
\* (no ttl, empty prefix) return on the top-level keys of the same names,
\* invoke the resolver with the same arguments, and leave the same contents.
C27_HashMethodsAsPlain ==
    LET one == calls[First]
        two == calls[Second]
    IN  IsValueTwin(two) =>
            /\ two.op = HashOf(one.op)
            /\ SameCourse(one, two)
            /\ two.pc = "returned" => one.result = two.result
            /\ two.pc = one.pc => SameContents(store)

\* C27, amended: the same, except for what the two setters return: setCache
\* returns the store's OK, setHashCache the number of fields it added (1 for
\* a new field, 0 for a field it overwrote).
C27_HashMethodsAsPlainButSetResult ==
    LET one == calls[First]
        two == calls[Second]
    IN  IsValueTwin(two) =>
            /\ two.op = HashOf(one.op)
            /\ SameCourse(one, two)
            /\ (two.pc = "returned" /\ two.op # "setHashCache") => one.result = two.result
            /\ (two.pc = "returned" /\ two.op = "setHashCache") =>
                   /\ one.result = Str(<<"O", "K">>)
                   /\ two.result =
                          Num(IF FieldText(two.snap, two.id) = <<"none">> THEN 1 ELSE 0)
            /\ two.pc = one.pc => SameContents(store)

\* C27 witness: over contents written by the setters, manyCache and
\* hashManyCache had one hit and one miss each, invoked their resolvers with
\* the same ids and returned the same list
C27_Witness ==
    LET one == calls[First]
        two == calls[Second]
    IN  /\ two.op = "hashManyCache"
        /\ two.pc = "returned"
        /\ one.pc = "returned"
        /\ Len(two.keys) = 2
        /\ Len(two.uncachedKeys) = 1
        /\ two.fnArgs = one.fnArgs
        /\ two.result = one.result
        /\ two.result.arr[1] # two.result.arr[2]
        /\ SameContents(store)

-----------------------------------------------------------------------------
(* Failures of the store and of the parser.                                *)

\* command i of the call went out inside a pipeline
Piped(call, i) ==
    \/ /\ call.op \in {"setManyCache", "manyCache"}
       /\ call.ttl # Undefined
       /\ call.cmds[i].name \in {"mset", "expire"}
    \/ call.op = "deletePattern" /\ call.cmds[i].name = "del"

\* command i of the call was issued by the method itself and awaited: one of
\* the reads, writes and deletes outside a pipeline, or the first increment
\* of acquire
Direct(call, i) ==
    \/ /\ call.cmds[i].name \in {"get", "set", "setex", "mget", "mset", "del",
                                 "hget", "hset", "hmget", "hmset", "hdel"}
       /\ ~Piped(call, i)
    \/ call.op = "acquire" /\ i = 1

SameCommand(c1, c2) == c1.name = c2.name /\ c1.args = c2.args

\* the store refused command i and the call ends with that error, without a
\* value, and without sending the command again
FailsWith(call, i) ==
    /\ call.pc \in {"failed", "catch"}
    /\ call.pc = "failed" => call.error = call.cmds[i].err
    /\ call.result = Undefined
    /\ \A j \in 1..Len(call.cmds) : j # i => ~SameCommand(call.cmds[j], call.cmds[i])

\* C28: when the store refuses a command that an operation issued directly
\* (get, set, setex, mget, mset, del, hget, hset, hmget, hmset, hdel, the
\* first increment of acquire), the operation fails with that same error,
\* does not send the command again, and returns no value.
C28_StoreFailurePropagates ==
    LET call == calls[Caller]
    IN  \A i \in 1..Len(call.cmds) :
            (Direct(call, i) /\ call.cmds[i].err # "") => FailsWith(call, i)

\* C29: when the store refuses a command inside a pipeline (the MSET or an
\* EXPIRE of setManyCache with ttl, a DEL of a batch of deletePattern), the
\* operation around it (setManyCache, manyCache with ttl, deletePattern)
\* fails with that error and does not complete normally.
C29_PipelineFailureFails ==
    LET call == calls[Caller]
    IN  \A i \in 1..Len(call.cmds) :
            (Piped(call, i) /\ call.cmds[i].err # "") =>
                /\ call.pc # "returned"
                /\ call.pc = "failed" => call.error = call.cmds[i].err

-----------------------------------------------------------------------------
(* Decode failure.                                                         *)

PlainReaders == {"getCache", "cache", "getManyCache", "manyCache"}
HashReaders == {"getHashCache", "hashCache", "getHashManyCache", "hashManyCache"}

\* the keys (or the fields of call.key) that a reading call asked the store for
Requested(call) ==
    CASE call.op \in {"getCache", "cache"} -> {call.key}
      [] call.op \in {"getHashCache", "hashCache"} -> {call.id}
      [] call.op = "manyCache" -> {call.prefix \o call.keys[i] : i \in 1..Len(call.keys)}
      [] OTHER -> {call.keys[i] : i \in 1..Len(call.keys)}

\* the text that the store held for a requested key when the call read it
TextRead(call, k) ==
    IF call.op \in PlainReaders THEN PlainText(call.snap, k)
    ELSE IF k \in DOMAIN FieldsOf(call.snap, call.key)
    THEN FieldsOf(call.snap, call.key)[k] ELSE <<"none">>

\* the call read an entry that another client had filled with a text that is
\* not JSON
ReadGarbage(call) ==
    /\ call.op \in PlainReaders \cup HashReaders
    /\ call.pc # "idle"
    /\ \E k \in Requested(call) : TextRead(call, k) \in Garbage

\* C30: a reading operation that meets a stored text the parser cannot
\* decode fails with the parser's error and does not report the entry as
\* absent; in manyCache and hashManyCache one such entry among the requested
\* keys fails the whole call, with the resolver never invoked and nothing
\* written.
C30_DecodeFailureFails ==
    LET call == calls[Caller]
    IN  ReadGarbage(call) =>
            /\ call.pc = "failed"
            /\ call.error = "SyntaxError"
            /\ call.result = Undefined
            /\ call.fnArgs = <<>>
            /\ store = call.snap
            /\ \A i \in 1..Len(call.cmds) :
                   call.cmds[i].name \in {"get", "mget", "hget", "hmget"}

\* manyCache has failed on a request of two keys, one holding a text that is
\* not JSON and the other a miss, which alone would have gone to the resolver
C30_Witness ==
    LET call == calls[Caller]
    IN  /\ call.op = "manyCache"
        /\ call.pc = "failed"
        /\ call.error = "SyntaxError"
        /\ \E k \in Requested(call) : TextRead(call, k) \in Garbage
        /\ \E k \in Requested(call) : PlainAbsent(call.snap, k)

-----------------------------------------------------------------------------
(* The reservation when the store refuses the increment.                   *)

\* the counter that a call of acquire or hashAcquire works on, in the store st
CounterIn(st, call) ==
    IF call.op = "acquire" THEN CounterOf(st, call.key)
    ELSE FieldCounterOf(st, call.key, call.id)

\* the store refused the first increment of a call of acquire or hashAcquire
IncrementRefused(call) ==
    /\ call.op \in {"acquire", "hashAcquire"}
    /\ Len(call.cmds) >= 1
    /\ call.cmds[1].err # ""

\* C31: in acquire and hashAcquire the decrement by amount is sent only after
\* the increment by amount has succeeded: when the store refuses the
\* increment itself, no decrement is sent and the counter stays as it was.
C31_NoReleaseWithoutIncrement ==
    LET call == calls[Caller]
    IN  IncrementRefused(call) =>
            /\ Len(call.cmds) = 1
            /\ CounterIn(store, call) = CounterIn(call.snap, call)

-----------------------------------------------------------------------------
(* Concurrent reservations on one counter.                                 *)

\* the sum of the amounts of the calls in S
RECURSIVE AmountsOf(_)
AmountsOf(S) ==
    IF S = {} THEN 0
    ELSE LET c == CHOOSE x \in S : TRUE IN calls[c].amount + AmountsOf(S \ {c})

\* the counter of the shared key before the first call
InitialCounter(k) ==
    IF history = <<>> THEN CounterOf(store, k)
    ELSE CounterOf(calls[history[1].by].snap, k)

\* the calls of acquire whose body has succeeded
Succeeded == {c \in CallIds : calls[c].op = "acquire" /\ calls[c].pc = "returned"}
\* the calls of acquire that have incremented and are not over: body is
\* running, or has raised and the decrement is still to come
Holding == {c \in CallIds : calls[c].op = "acquire" /\ calls[c].pc \in {"fn", "catch"}}

\* C32: with concurrent calls of acquire on one counter and a store that
\* refuses nothing, the counter is at every moment its initial value plus the
\* amounts of the calls whose body succeeded plus the amounts of the calls
\* that have incremented and not finished; when all calls are over it is the
\* initial value plus the amounts of the successful calls.
C32_CounterIsSumOfHeld ==
    scene.kind = "counter" =>
        \A k \in ConcKeys :
            CounterOf(store, k) = InitialCounter(k) + AmountsOf(Succeeded) + AmountsOf(Holding)

\* two calls overlapped on a counter that started at 1: one succeeded, the
\* other has raised in its body and has given its amount back
C32_Witness ==
    /\ scene.kind = "counter"
    /\ \E k \in ConcKeys : InitialCounter(k) = 1
    /\ \E c, d \in CallIds :
           /\ calls[c].op = "acquire" /\ calls[c].pc = "returned"
           /\ calls[d].op = "acquire" /\ calls[d].pc = "failed"
           /\ \E i, j \in 1..Len(history) :
                  /\ i < j
                  /\ history[i].by = d /\ history[j].by = c
                  /\ \E m \in (j + 1)..Len(history) : history[m].by = d

-----------------------------------------------------------------------------
(* The order of the steps of acquire.                                      *)

\* C33: in acquire the increment of the counter has completed before body is
\* invoked, body is invoked at most once, and when body raises the decrement
\* is sent and answered after body's failure and before the error reaches the
\* caller.
C33_AcquireStepsInOrder ==
    LET call == calls[Caller]
    IN  call.op = "acquire" =>
            /\ Len(call.fnArgs) <= 1
            /\ call.fnArgs # <<>> =>
                   /\ Len(call.cmds) >= 1
                   /\ IsIncrement(call.cmds[1], call.key, call.amount)
                   /\ call.cmds[1].err = ""
            /\ (call.fnArgs # <<>> /\ call.pc \in {"fn", "catch", "returned"}) =>
                   Len(call.cmds) = 1
            /\ (call.fnArgs # <<>> /\ call.pc = "failed") =>
                   /\ Len(call.cmds) = 2
                   /\ IsIncrement(call.cmds[2], call.key, 0 - call.amount)
                   /\ call.error = "body" => call.cmds[2].err = ""

\* body was invoked once, after the increment, and raised; its error has
\* reached the caller after the decrement was applied
C33_Witness ==
    LET call == calls[Caller]
    IN  /\ call.op = "acquire"
        /\ call.pc = "failed"
        /\ call.error = "body"
        /\ Len(call.fnArgs) = 1
        /\ Len(call.cmds) = 2
        /\ call.cmds[1].err = ""
        /\ call.cmds[2].err = ""
        /\ CounterOf(store, call.key) = CounterOf(call.snap, call.key)

-----------------------------------------------------------------------------
(* What a batch call leaves alone.                                         *)

\* the entry of id k of a batch call in the store st: the key's entry (the
\* field's text), or nothing
EntryAt(st, call, k) ==
    IF call.op = "manyCache"
    THEN IF Has(st, call.prefix \o k) THEN <<st[Phys(call.prefix \o k)]>> ELSE <<>>
    ELSE IF k \in DOMAIN FieldsOf(st, call.key) THEN <<FieldsOf(st, call.key)[k]>> ELSE <<>>

\* the requested ids that were misses when the call read the store
MissIds(call) == {k \in Range(call.keys) : BatchMiss(call, k)}

\* the keys of the map the resolver returned; none for an array, and none
\* while the resolver has not returned
MapKeys(call) ==
    IF DOMAIN call.fnValue = {"obj"} THEN DOMAIN call.fnValue.obj ELSE {}

\* C34 as stated: manyCache and hashManyCache write only entries of ids that
\* were misses in the call's own read; an entry that was a hit, and an id that
\* was not requested, is neither created nor overwritten, whatever keys the
\* map returned by the resolver has.
C34_OnlyMissesWritten ==
    \A c \in CallIds :
        LET call == calls[c]
        IN  IsBatch(call) =>
                \A k \in Keys \ MissIds(call) :
                    EntryAt(store, call, k) = EntryAt(call.snap, call, k)

\* C34 amended: the same for every id that is neither a miss of the call's
\* own read nor a key of the map the resolver returned.
C34_OnlyMissesAndMapKeysWritten ==
    \A c \in CallIds :
        LET call == calls[c]
        IN  IsBatch(call) =>
                \A k \in Keys \ (MissIds(call) \cup MapKeys(call)) :
                    EntryAt(store, call, k) = EntryAt(call.snap, call, k)

\* a batch call asked for a hit and a miss, the resolver returned a map with
\* the miss alone, and the call has written the miss and left the hit
C34_Witness ==
    \E c \in CallIds :
        LET call == calls[c]
        IN  /\ IsBatch(call)
            /\ call.pc = "returned"
            /\ Len(call.keys) = 2
            /\ ~BatchMiss(call, call.keys[1])
            /\ BatchMiss(call, call.keys[2])
            /\ MapKeys(call) = {call.keys[2]}
            /\ EntryAt(store, call, call.keys[2]) # EntryAt(call.snap, call, call.keys[2])
            /\ EntryAt(store, call, call.keys[1]) = EntryAt(call.snap, call, call.keys[1])

-----------------------------------------------------------------------------
(* cache next to a writer of its key.                                      *)

\* the event sets or deletes the key
ChangesKey(ev, key) ==
    \/ WritesKey(ev, key)
    \/ ev.cmd.name = "del" /\ Str(key) \in Range(ev.cmd.args)

\* caller d has set or deleted the key of the cache call c after c read it
\* and before any write of c
CameBetween(d, c) ==
    /\ calls[d].op \in {"setCache", "deleteCache"}
    /\ \E i \in (ReadAt(c) + 1)..Len(history) :
           /\ history[i].by = d
           /\ ChangesKey(history[i], calls[c].key)
           /\ \A j \in 1..(i - 1) :
                  ~(history[j].by = c /\ WritesKey(history[j], calls[c].key))

\* C35: the read and the write of cache are separate commands with nothing
\* atomic between them: when another caller sets or deletes K after a call
\* of cache(K, resolver) read a miss and before it writes, the call of cache
\* writes its resolver's value all the same, and with both calls over K holds
\* the resolver's value, not the other caller's value and not absence.
C35_CacheWritesOverLaterChange ==
    \A c, d \in CallIds :
        (/\ c # d
         /\ calls[c].op = "cache"
         /\ calls[c].pc = "returned"
         /\ PlainAbsent(calls[c].snap, calls[c].key)
         /\ CameBetween(d, c)) =>
            /\ HasWritten(c)
            /\ calls[c].result = calls[c].fnValue
            /\ history[WriteAt(c)].cmd.args[2] = JSONstringify(calls[c].fnValue)
            /\ (\A x \in (WriteAt(c) + 1)..Len(history) :
                    ~ChangesKey(history[x], calls[c].key)) =>
                   HoldsTextOf(store, calls[c].key, calls[c].fnValue)

\* cache read a miss, another caller set the key to 0, and cache then wrote
\* its resolver's 1 over it
C35_Witness ==
    \E c, d \in CallIds :
        /\ c # d
        /\ calls[c].op = "cache" /\ calls[c].pc = "returned"
        /\ ~Has(calls[c].snap, calls[c].key)
        /\ calls[d].op = "setCache" /\ calls[d].pc = "returned"
        /\ calls[d].value = Num(0)
        /\ HasWritten(c)
        /\ CameBetween(d, c)
        /\ calls[c].fnValue = Num(1)
        /\ store[Phys(calls[c].key)].text = <<"1">>

-----------------------------------------------------------------------------
(* setManyCache with a ttl, seen by other callers.                         *)

\* a call of setManyCache with a ttl, alone in writing
LoneSetMany(c) ==
    /\ calls[c].op = "setManyCache"
    /\ calls[c].ttl # Undefined
    /\ \A d \in CallIds \ {c} : calls[d].op # "setManyCache"

\* C36: in setManyCache(map, ttl) the MSET and the EXPIRE of each key are
\* separate commands, applied in that order and not atomically: between the
\* two a key of map is there with its new value and without expiry, which a
\* concurrent reader can see, and there it stays when execution goes no
\* further.
C36_ExpiryComesAfterMset ==
    \A c \in CallIds :
        LET call == calls[c]
        IN  LoneSetMany(c) =>
                /\ call.cmds[1].name = "mset"
                /\ \A i \in 2..Len(call.cmds) : call.cmds[i].name = "expire"
                /\ call.pc = "pipeline" <=> call.pipeline # <<>>
                /\ \A k \in DOMAIN call.value.obj :
                       /\ HoldsTextOf(store, k, call.value.obj[k])
                       /\ store[Phys(k)].exp =
                              IF k \in Range(call.pipeline) THEN 0 ELSE call.ttl.num

\* while setManyCache with a ttl was between its MSET and the EXPIRE of a key,
\* another caller read the key, got the new value, and the key had no expiry
C36_Witness ==
    \E c, d \in CallIds :
        /\ LoneSetMany(c)
        /\ calls[c].pc = "pipeline"
        /\ calls[d].op = "getCache"
        /\ calls[d].pc = "returned"
        /\ calls[d].key \in Range(calls[c].pipeline)
        /\ ~Has(calls[c].snap, calls[d].key)
        /\ calls[d].result = calls[c].value.obj[calls[d].key]
        /\ calls[d].snap[Phys(calls[d].key)].exp = 0
        /\ store[Phys(calls[d].key)].exp = 0

-----------------------------------------------------------------------------
(* The grouped delete requests of deletePattern.                           *)

\* the keys of the pages of a scan, one after the other
RECURSIVE Flat(_)
Flat(pages) == IF pages = <<>> THEN <<>> ELSE Head(pages) \o Flat(Tail(pages))

\* the keys that a deletePattern call has put into delete requests: those of
\* the requests issued, in order, and those of the pipeline in hand
Queued(call) ==
    Flat([j \in 1..Len(call.jobs) |-> call.jobs[j].keys]) \o call.pipeline

\* the keys of the DEL commands the store has been sent for the call
Deleted(call) ==
    LET dels == SelectSeq(call.cmds, LAMBDA x : x.name = "del")
    IN  [i \in 1..Len(dels) |-> dels[i].args[1].str]

\* the keys of the call's requests that the store has applied
Landed(call) ==
    Flat([j \in 1..Len(call.jobs) |->
             IF call.jobs[j].landed THEN call.jobs[j].keys ELSE <<>>])

\* the number of times that k occurs in the sequence s
Count(s, k) == Cardinality({i \in DOMAIN s : s[i] = k})

\* C37: in deletePattern every key that a page of the scan returns is deleted
\* under its name without the configured prefix (the first prefix-length
\* characters dropped), and every occurrence of a key in a page goes into
\* exactly one grouped delete request.
C37_ScannedKeysDeletedUnprefixed ==
    LET call == calls[Caller]
        scanned == Flat(call.pages)
    IN  call.op = "deletePattern" =>
            /\ Len(Queued(call)) = Len(scanned)
            /\ \A i \in 1..Len(scanned) : keyPrefix \o Queued(call)[i] = scanned[i]
            /\ call.pc \in {"jobs", "returned"} => call.pipeline = <<>>
            /\ \A k \in Keys \cup {<<"a", "b">>, HashKey} :
                   Count(Deleted(call), k) = Count(Landed(call), k)
            /\ Len(Deleted(call)) = Len(Landed(call))
            /\ call.pc = "returned" => Len(Deleted(call)) = Len(scanned)

\* a scan returned one key in two of its pages; both occurrences were deleted,
\* in different requests, and the call has returned
C37_Witness ==
    LET call == calls[Caller]
        scanned == Flat(call.pages)
    IN  /\ call.op = "deletePattern"
        /\ call.pc = "returned"
        /\ Len(call.jobs) >= 2
        /\ \E i, j \in 1..Len(scanned) : i < j /\ scanned[i] = scanned[j]
        /\ Len(Deleted(call)) = Len(scanned)
        /\ Len(scanned) >= 3

\* C38: every grouped delete request that deletePattern(glob, batch) issues
\* holds at most batch deletions, whatever the number of keys in each page of
\* the scan (stated for a batch of one or more).
C38_RequestsHoldAtMostBatch ==
    LET call == calls[Caller]
    IN  (call.op = "deletePattern" /\ call.batch >= 1) =>
            \A j \in 1..Len(call.jobs) : Len(call.jobs[j].keys) <= call.batch

\* C39: deletePattern does not return to its caller before the scan has ended
\* and every grouped delete request it issued, the trailing one included, has
\* completed; the requests may complete in any order.
C39_ReturnsAfterAllRequests ==
    LET call == calls[Caller]
    IN  (call.op = "deletePattern" /\ call.pc = "returned") =>
            /\ call.unscanned = {}
            /\ call.jobs # <<>>
            /\ call.pipeline = <<>>
            /\ Len(Queued(call)) = Len(Flat(call.pages))
            /\ \A j \in 1..Len(call.jobs) :
                   /\ call.jobs[j].landed
                   /\ Len(call.jobs[j].replies) = Len(call.jobs[j].keys)

\* a call has returned whose requests, two or more with deletions in them,
\* completed in another order than the one they were issued in
C39_Witness ==
    LET call == calls[Caller]
    IN  /\ call.op = "deletePattern"
        /\ call.pc = "returned"
        /\ Cardinality({j \in 1..Len(call.jobs) : call.jobs[j].keys # <<>>}) >= 2
        /\ \A j \in 1..Len(call.jobs) : call.jobs[j].landed
        /\ Deleted(call) # Landed(call)

-----------------------------------------------------------------------------
(* Progress of the calls that run a function of the caller.                *)

\* the call of c is under way / is over
Pending(c) == calls[c].pc \notin {"idle", "returned", "failed"}
Over(c) == calls[c].pc \in {"returned", "failed"}

\* C40: when the store answers every command and the resolver or body
\* returns or raises, every call of cache, manyCache, hashCache,
\* hashManyCache, acquire and hashAcquire eventually completes, whatever the
\* interleaving with the other calls: a call under way can always take its
\* next step, it never waits for the progress of another call.
C40_EveryCallCompletes ==
    /\ [](\A c \in CallIds : Pending(c) => ENABLED Continue(c))
    /\ \A c \in CallIds : Pending(c) ~> Over(c)

\* two calls that were under way at the same time, their commands
\* interleaved, are both over
C40_Witness ==
    /\ \A c \in CallIds : Over(c)
    /\ \E i, j, k \in 1..Len(history) :
           /\ i < j /\ j < k
           /\ history[i].by = history[k].by
           /\ history[j].by # history[i].by
    /\ \E c \in CallIds : calls[c].op \in {"acquire", "hashAcquire"} /\ calls[c].pc = "failed"
    /\ \E c \in CallIds : calls[c].op \in {"cache", "manyCache", "hashCache", "hashManyCache"}

====
